---- MODULE Spec2Model ----
(***************************************************************************)
(* Incident reconciliation of the Caltrain status page.                    *)
(*                                                                         *)
(* The model follows src/scripts/ingest_emails_imap.js: a mail message is  *)
(* turned into an event (buildParsedEvent), the event is folded into the   *)
(* monthly shard its date selects (applyEventToRepo, upsertIncidentInShard,*)
(* findMatchingIncident, createIncidentId) and the shard is saved sorted   *)
(* (saveShard).                                                            *)
(*                                                                         *)
(* Text is a sequence of words (the words of a line, split at white space);*)
(* a time is a number of hours since 2024-01-01T00:00Z, and stands for its *)
(* ISO string.                                                             *)
(***************************************************************************)
EXTENDS Integers, Sequences, FiniteSets, TLC

VARIABLES
    tz,        \* offset of the machine's local time from UTC, in hours
    index,     \* data/incidents/index.json: index.files
    shards,    \* the shard files: local month -> [period, items]
    last,      \* <<>> or <<r>>: r describes the last call of applyEventToRepo
    nEvents,   \* number of calls of applyEventToRepo so far (of the run, in a run)
    mailbox,   \* the messages of the IMAP mailbox; a uid is a position
    seenFlags, \* the uids flagged \Seen
    stateFile, \* data/ingestion-state.json: processed_message_ids
    statusFile,\* data/current-status.json
    pc,        \* where main() is: "idle" when no run is under way
    uids,      \* the uids the search of the run returned
    cursor,    \* the position in uids of the message the loop is at
    memIds,    \* state.processed_message_ids (and the set processedIds) in memory
    changed,   \* the flag changed of main()
    runs,      \* number of runs started
    start,     \* the index, shards and state file as the run found them
    args,      \* <<>> or what the status page computes from
    result     \* <<>> or what the status page computed

storeVars == <<index, shards>>
mailVars == <<mailbox, seenFlags, stateFile, statusFile>>
runVars == <<pc, uids, cursor, memIds, changed, runs, start>>
pageVars == <<args, result>>
vars == <<tz, index, shards, last, nEvents, mailbox, seenFlags, stateFile,
          statusFile, pc, uids, cursor, memIds, changed, runs, start,
          args, result>>

-----------------------------------------------------------------------------
(* Bounds of the model. *)

MaxEvents == 3

\* Times, in hours since 2024-01-01T00:00Z: 2024-02-01T04:00Z and
\* 2024-02-01T16:00Z, the same day and month in UTC; eight hours west of UTC
\* the first is still in January.
Times == {748, 760}

\* The machine's zone, in hours east of UTC: UTC, or Pacific Standard Time.
TzOffsets == {0, -8}

\* resolved_at: null
NullTime == -1

-----------------------------------------------------------------------------
(* Words and the character-level string operations, on the vocabulary. *)

toLowerCase(w) ==
    CASE w = "Re:" -> "re:"
      [] w = "Caltrain" -> "caltrain"
      [] w = "Alert" -> "alert"
      [] w = "Delays" -> "delays"
      [] w = "DELAYS" -> "delays"
      [] w = "Restored" -> "restored"
      [] w = "Shutdown" -> "shutdown"
      [] w = "Single-track" -> "single-track"
      [] w = "(No" -> "(no"
      [] w = "No" -> "no"
      [] w = "Re" -> "re"
      [] w = "Email" -> "email"
      [] w = "Platform" -> "platform"
      [] w = "Trains" -> "trains"
      [] OTHER -> w

\* headline.charAt(0).toUpperCase() + headline.slice(1), on the first word
capitalizeWord(w) ==
    CASE w = "delays" -> "Delays"
      [] w = "restored" -> "Restored"
      [] w = "shutdown" -> "Shutdown"
      [] w = "single-track" -> "Single-track"
      [] w = "re:" -> "Re:"
      [] OTHER -> w

\* .replace(/[^\w\s-]/g, " ") on one word: the words it leaves ("" for none)
stripPunctuation(w) ==
    CASE w = "Re:" -> "Re"
      [] w = "re:" -> "re"
      [] w = "(No" -> "No"
      [] w = "(no" -> "no"
      [] w = "subject)" -> "subject"
      [] OTHER -> w

Range(seq) == {seq[i] : i \in 1..Len(seq)}

FilterSeq(s, keep(_)) == SelectSeq(s, keep)

MapSeq(s, f(_)) == [i \in 1..Len(s) |-> f(s[i])]

ReplyPrefixes == {"re:", "fw:", "fwd:"}
DroppedWords == {"alert", "advisory", "notification"}

normalizeSubject(subject) ==
    LET s1 == IF subject # <<>> /\ toLowerCase(Head(subject)) \in ReplyPrefixes
              THEN Tail(subject) ELSE subject
        s2 == FilterSeq(s1, LAMBDA w : toLowerCase(w) # "caltrain")
        s3 == FilterSeq(s2, LAMBDA w : toLowerCase(w) \notin DroppedWords)
        s4 == MapSeq(s3, stripPunctuation)
    IN  FilterSeq(s4, LAMBDA w : w # "")

RECURSIVE JoinDash(_)
JoinDash(s) ==
    IF s = <<>> THEN ""
    ELSE IF Len(s) = 1 THEN Head(s)
    ELSE Head(s) \o "-" \o JoinDash(Tail(s))

\* .slice(0, 60) cuts nothing: every slug of the vocabulary is shorter.
slugify(text) ==
    LET ws == FilterSeq(MapSeq(MapSeq(text, toLowerCase), stripPunctuation),
                        LAMBDA w : w # "")
        slug == JoinDash(ws)
    IN  IF slug = "" THEN "email-alert" ELSE slug

\* firstNonEmptyLine(text): a text of the model is one line
firstNonEmptyLine(text) == text

PlaceholderSummary == <<"Email", "alert", "received;", "parser", "placeholder", "used.">>

summarizeBody(text) == IF text = <<>> THEN PlaceholderSummary ELSE text

\* `${subject}\n${bodyText}`.toLowerCase(): the line break is a word of its own
Haystack(subject, bodyText) ==
    MapSeq(subject \o <<"\n">> \o bodyText, toLowerCase)

HasWord(hay, words) == \E i \in 1..Len(hay) : hay[i] \in words

HasPhrase(hay, w1, w2) ==
    \E i \in 1..(Len(hay) - 1) : hay[i] = w1 /\ hay[i + 1] = w2

inferSeverityAndStatus(subject, bodyText) ==
    LET hay == Haystack(subject, bodyText)
    IN  IF HasWord(hay, {"resolved", "restored", "clear", "cleared"})
           \/ HasPhrase(hay, "normal", "service")
        THEN [severity |-> "minor", status |-> "resolved", updateState |-> "operational"]
        ELSE IF HasWord(hay, {"shutdown"}) \/ HasPhrase(hay, "no", "service")
                \/ HasPhrase(hay, "service", "suspended")
        THEN [severity |-> "critical", status |-> "investigating", updateState |-> "critical"]
        ELSE IF HasWord(hay, {"single-track"}) \/ HasPhrase(hay, "major", "disruption")
                \/ HasPhrase(hay, "disabled", "train") \/ HasPhrase(hay, "signal", "issue")
                \/ HasPhrase(hay, "police", "activity")
        THEN [severity |-> "major", status |-> "investigating", updateState |-> "major"]
        ELSE [severity |-> "minor", status |-> "investigating", updateState |-> "degraded"]

inferAffectedSegments(subject, bodyText) ==
    LET hay == Haystack(subject, bodyText)
        both == HasPhrase(hay, "both", "directions")
        north == HasWord(hay, {"northbound"}) \/ both
        south == HasWord(hay, {"southbound"}) \/ both
        segs == (IF north THEN <<"Northbound">> ELSE <<>>)
                \o (IF south THEN <<"Southbound">> ELSE <<>>)
    IN  IF segs = <<>> THEN <<"System-wide">> ELSE segs

NoSubject == <<"(No", "subject)">>
DefaultHeadline == <<"Caltrain", "service", "alert">>

\* Every message carries its receivedAt, as every message main() passes does
\* (line 408), so the default of line 130, the time of the run, is not taken.
buildParsedEvent(message) ==
    LET subject == IF message.subject = <<>> THEN NoSubject ELSE message.subject
        bodyText == message.bodyText
        normalizedSubject == normalizeSubject(subject)
        subjectKey == slugify(IF normalizedSubject # <<>> THEN normalizedSubject
                              ELSE subject)
        headline == IF normalizedSubject # <<>> THEN normalizedSubject
                    ELSE IF firstNonEmptyLine(bodyText) # <<>>
                         THEN firstNonEmptyLine(bodyText)
                         ELSE DefaultHeadline
        severityInfo == inferSeverityAndStatus(subject, bodyText)
    IN  [ messageId |-> message.messageId,
          receivedAt |-> message.receivedAt,
          subjectKey |-> subjectKey,
          title |-> <<capitalizeWord(Head(headline))>> \o Tail(headline),
          summary |-> summarizeBody(bodyText),
          severity |-> severityInfo.severity,
          incidentStatus |-> severityInfo.status,
          updateState |-> severityInfo.updateState,
          affectedSegments |-> inferAffectedSegments(subject, bodyText),
          updateMessage |-> IF firstNonEmptyLine(bodyText) # <<>>
                            THEN firstNonEmptyLine(bodyText) ELSE subject ]

-----------------------------------------------------------------------------
(* The mail the model delivers. A message id names one message: the model  *)
(* takes the message's content for its id.                                 *)

Subjects ==
    { <<"Re:", "Caltrain", "Delays">>,
      <<"DELAYS">>,
      <<"Caltrain", "Alert">> }

Bodies ==
    { <<"delays">>,
      <<"restored", "southbound">>,
      <<"shutdown", "northbound">> }

Messages ==
    { [ messageId |-> <<s, b, t>>, subject |-> s, bodyText |-> b, receivedAt |-> t ] :
        s \in Subjects, b \in Bodies, t \in Times }

\* The event of each message, computed once.
EventOf == [m \in Messages |-> buildParsedEvent(m)]

Events == { EventOf[m] : m \in Messages }


-----------------------------------------------------------------------------
(* Dates. *)

Pad2(n) == IF n < 10 THEN "0" \o ToString(n) ELSE ToString(n)

\* The month (1, 2, ...) and the day of the month of a time of the first
\* months of 2024.
DayOfYear(hours) == hours \div 24
MonthOf(hours) ==
    IF DayOfYear(hours) < 31 THEN 1 ELSE IF DayOfYear(hours) < 60 THEN 2 ELSE 3
DayOfMonth(hours) ==
    IF DayOfYear(hours) < 31 THEN DayOfYear(hours) + 1
    ELSE IF DayOfYear(hours) < 60 THEN DayOfYear(hours) - 30
    ELSE DayOfYear(hours) - 59

\* date.toISOString().slice(0, 7)
IsoMonth(t) == "2024-" \o Pad2(MonthOf(t))

\* date.toISOString().slice(0, 10)
IsoDay(t) == IsoMonth(t) \o "-" \o Pad2(DayOfMonth(t))

\* `${year}-${month}` of date.getFullYear() and date.getMonth() + 1: the
\* month of the local time names the shard file.
getShardPathForDate(t, offset) ==
    "data/incidents/2024-" \o Pad2(MonthOf(t + offset)) \o "/incidents.json"

\* The order of two shard paths as strings is the order of their months.
PathMonth(path) ==
    CHOOSE m \in 1..3 :
        path = "data/incidents/2024-" \o Pad2(m) \o "/incidents.json"

-----------------------------------------------------------------------------
(* Array.prototype.sort is stable: elements that compare equal keep their  *)
(* order. Each sort below inserts the elements in their order.             *)

\* items.sort((a, b) => new Date(b.started_at) - new Date(a.started_at))
SortByStartedDesc(items) ==
    LET insert(sorted, x) ==
            LET k == Cardinality({i \in 1..Len(sorted) :
                                    sorted[i].started_at >= x.started_at})
            IN  SubSeq(sorted, 1, k) \o <<x>> \o SubSeq(sorted, k + 1, Len(sorted))
        f[n \in 0..Len(items)] ==
            IF n = 0 THEN <<>> ELSE insert(f[n - 1], items[n])
    IN  f[Len(items)]

\* updates.sort((a, b) => new Date(a.timestamp) - new Date(b.timestamp))
SortByTimestampAsc(updates) ==
    LET insert(sorted, x) ==
            LET k == Cardinality({i \in 1..Len(sorted) :
                                    sorted[i].timestamp <= x.timestamp})
            IN  SubSeq(sorted, 1, k) \o <<x>> \o SubSeq(sorted, k + 1, Len(sorted))
        f[n \in 0..Len(updates)] ==
            IF n = 0 THEN <<>> ELSE insert(f[n - 1], updates[n])
    IN  f[Len(updates)]

\* Array.from(new Set(files)).sort().reverse()
SortPathsDesc(files) ==
    LET set == {files[i] : i \in 1..Len(files)}
        f[n \in 0..Cardinality(set)] ==
            IF n = 0 THEN <<>>
            ELSE Append(f[n - 1],
                        CHOOSE x \in set :
                            Cardinality({y \in set :
                                PathMonth(y) > PathMonth(x)}) = n - 1)
    IN  f[Cardinality(set)]

\* Array.from(new Set(array)): the first occurrence of each element, in order
UniqueInOrder(array) ==
    SelectSeq([i \in 1..Len(array) |-> <<i, array[i]>>],
              LAMBDA p : \A j \in 1..(p[1] - 1) : array[j] # p[2])

\* A variant that keeps every element, duplicates too
DedupArray_KeepsAll(array) == array

DedupArray(array) ==
    LET u == UniqueInOrder(array) IN [i \in 1..Len(u) |-> u[i][2]]

-----------------------------------------------------------------------------
(* The reconciler. *)

severityRank(severity) ==
    CASE severity = "operational" -> 0
      [] severity = "minor" -> 1
      [] severity = "degraded" -> 1
      [] severity = "major" -> 2
      [] severity = "critical" -> 3
      [] OTHER -> 0

RECURSIVE NextFreeCounter(_, _, _)
NextFreeCounter(base, existingIds, counter) ==
    IF (base \o "-" \o ToString(counter)) \in existingIds
    THEN NextFreeCounter(base, existingIds, counter + 1)
    ELSE counter

\* A variant that appends -2 on a collision without scanning
createIncidentId_NoScan(date, subjectKey, existingIds) ==
    LET base == "inc-" \o IsoDay(date) \o "-" \o subjectKey
    IN  IF base \notin existingIds THEN base ELSE base \o "-2"

createIncidentId(date, subjectKey, existingIds) ==
    LET base == "inc-" \o IsoDay(date) \o "-" \o subjectKey
    IN  IF base \notin existingIds THEN base
        ELSE base \o "-" \o ToString(NextFreeCounter(base, existingIds, 2))

\* The candidates of an event: positions in shard.items, in the order of the
\* sorted copy.
Candidates(shard, event) ==
    LET items == shard.items
        positions == SelectSeq([i \in 1..Len(items) |-> i],
                        LAMBDA i :
                            \/ items[i].ingestion_key = event.subjectKey
                            \/ normalizeSubject(items[i].title)
                                   = normalizeSubject(event.title))
        insert(sorted, p) ==
            LET k == Cardinality({i \in 1..Len(sorted) :
                        items[sorted[i]].started_at >= items[p].started_at})
            IN  SubSeq(sorted, 1, k) \o <<p>> \o SubSeq(sorted, k + 1, Len(sorted))
        f[n \in 0..Len(positions)] ==
            IF n = 0 THEN <<>> ELSE insert(f[n - 1], positions[n])
    IN  f[Len(positions)]

\* A variant that takes the most recent candidate, open or not
FirstOpenOrFirst_MostRecent(shard, candidates) == candidates[1]

\* The first candidate that is not resolved, or else the first candidate.
FirstOpenOrFirst(shard, candidates) ==
    LET open == SelectSeq(candidates,
                          LAMBDA p : shard.items[p].status # "resolved")
    IN  IF open # <<>> THEN open[1] ELSE candidates[1]

\* The position in shard.items of the incident returned; 0 for null.
findMatchingIncident(shard, event) ==
    LET pick(candidates) ==
            IF candidates = <<>> THEN 0
            ELSE IF event.incidentStatus = "resolved"
                 THEN FirstOpenOrFirst(shard, candidates)
                 ELSE FirstOpenOrFirst(shard, candidates)
    IN  pick(Candidates(shard, event))

NewIncident(event, existingIds) ==
    [ id |-> createIncidentId(event.receivedAt, event.subjectKey, existingIds),
      title |-> event.title,
      severity |-> event.severity,
      status |-> event.incidentStatus,
      started_at |-> event.receivedAt,
      resolved_at |-> IF event.incidentStatus = "resolved"
                      THEN event.receivedAt ELSE NullTime,
      affected_segments |-> event.affectedSegments,
      summary |-> event.summary,
      updates |-> <<>>,
      ingestion_key |-> event.subjectKey ]

\* A variant that takes the event's severity whatever its rank
MergedSeverity_AlwaysAdopts(incident, event) == event.severity

MergedSeverity(incident, event) ==
    IF severityRank(event.severity) > severityRank(incident.severity)
    THEN event.severity ELSE incident.severity

\* A variant that leaves an incident that is resolved already as it is
MergedStatus_KeepsResolution(incident, event) ==
    IF event.incidentStatus = "resolved"
    THEN IF incident.status = "resolved"
         THEN [status |-> incident.status, resolved_at |-> incident.resolved_at]
         ELSE [status |-> "resolved", resolved_at |-> event.receivedAt]
    ELSE IF incident.status = "resolved"
    THEN [status |-> "investigating", resolved_at |-> NullTime]
    ELSE [status |-> event.incidentStatus, resolved_at |-> incident.resolved_at]

\* A variant that reopens an incident and leaves its resolved_at
MergedStatus_KeepsResolvedAt(incident, event) ==
    IF event.incidentStatus = "resolved"
    THEN [status |-> "resolved", resolved_at |-> event.receivedAt]
    ELSE IF incident.status = "resolved"
    THEN [status |-> "investigating", resolved_at |-> incident.resolved_at]
    ELSE [status |-> IF event.incidentStatus # "" THEN event.incidentStatus
                     ELSE incident.status,
          resolved_at |-> incident.resolved_at]

MergedStatus(incident, event) ==
    IF event.incidentStatus = "resolved"
    THEN [status |-> "resolved", resolved_at |-> event.receivedAt]
    ELSE IF incident.status = "resolved"
    THEN [status |-> "investigating", resolved_at |-> NullTime]
    ELSE [status |-> IF event.incidentStatus # "" THEN event.incidentStatus
                     ELSE incident.status,
          resolved_at |-> incident.resolved_at]

\* A variant that restarts the incident at the time of the event
MergeIncident_Restarts(incident, event) ==
    [ incident EXCEPT
        !.affected_segments =
            DedupArray(incident.affected_segments \o event.affectedSegments),
        !.summary = IF event.summary # <<>> THEN event.summary ELSE incident.summary,
        !.severity = MergedSeverity(incident, event),
        !.status = MergedStatus(incident, event).status,
        !.resolved_at = MergedStatus(incident, event).resolved_at,
        !.started_at = event.receivedAt ]

MergeIncident(incident, event) ==
    LET st == MergedStatus(incident, event)
    IN  [ incident EXCEPT
            !.title = IF incident.title # <<>> THEN incident.title ELSE event.title,
            !.affected_segments =
                DedupArray(incident.affected_segments \o event.affectedSegments),
            !.summary = IF event.summary # <<>> THEN event.summary
                        ELSE incident.summary,
            !.severity = MergedSeverity(incident, event),
            !.status = st.status,
            !.resolved_at = st.resolved_at ]

\* A variant that appends without looking for the message id
AppendUpdate_NoDedup(incident, event) ==
    [ incident EXCEPT !.updates =
        SortByTimestampAsc(Append(incident.updates,
            [ timestamp |-> event.receivedAt,
              state |-> event.updateState,
              message |-> event.updateMessage,
              source_message_id |-> event.messageId ])) ]

AppendUpdate(incident, event) ==
    IF \E i \in 1..Len(incident.updates) :
           incident.updates[i].source_message_id = event.messageId
    THEN incident
    ELSE [ incident EXCEPT !.updates =
             SortByTimestampAsc(Append(incident.updates,
                 [ timestamp |-> event.receivedAt,
                   state |-> event.updateState,
                   message |-> event.updateMessage,
                   source_message_id |-> event.messageId ])) ]

\* The shard after the call and the id of the incident returned; before is
\* <<>> when the call created the incident, and else holds the incident as
\* the call found it.
upsertIncidentInShard(shard, event) ==
    LET items == shard.items
        existingIds == {items[i].id : i \in 1..Len(items)}
        pushed(incident) ==
            [ shard |-> [shard EXCEPT !.items = Append(items, incident)],
              id |-> incident.id, before |-> <<>> ]
        merged(pos, incident) ==
            [ shard |-> [shard EXCEPT !.items[pos] = incident],
              id |-> incident.id, before |-> <<items[pos]>> ]
        upsert(pos) ==
            IF pos = 0
            THEN pushed(AppendUpdate(NewIncident(event, existingIds), event))
            ELSE merged(pos, AppendUpdate(MergeIncident(items[pos], event), event))
    IN  upsert(findMatchingIncident(shard, event))

saveShard(shard) == [shard EXCEPT !.items = SortByStartedDesc(shard.items)]

\* readJson(filePath, { period, items: [] })
loadShard(files, path, period) ==
    IF path \in DOMAIN files THEN files[path]
    ELSE [period |-> period, items |-> <<>>]

\* An index that lists the new shard only
IndexAfter_Overwrites(files, path) ==
    IF \E i \in 1..Len(files) : files[i] = path THEN files
    ELSE <<path>>

\* index.files after the first lines of applyEventToRepo
IndexAfter(files, path) ==
    IF \E i \in 1..Len(files) : files[i] = path THEN files
    ELSE SortPathsDesc(Append(files, path))

\* The shard written by applyEventToRepo, and the incident returned
ShardAfter(files, event, offset) ==
    LET written(path, up) ==
            [ path |-> path, shard |-> saveShard(up.shard),
              id |-> up.id, before |-> up.before ]
        apply(path, period) ==
            written(path,
                upsertIncidentInShard(
                    [loadShard(files, path, period) EXCEPT !.period = period],
                    event))
    IN  apply(getShardPathForDate(event.receivedAt, offset),
              IsoMonth(event.receivedAt))

\* A variant that keeps no file but the one written
WriteFile_Alone(files, path, content) ==
    [p \in {path} |-> content]

WriteFile(files, path, content) ==
    [p \in DOMAIN files \cup {path} |-> IF p = path THEN content ELSE files[p]]

-----------------------------------------------------------------------------
(* The current status. *)

\* The incidents of the shards the index lists; a shard file that is not
\* there reads as { items: [] }.
collectAllIncidents(files, shardFiles) ==
    LET itemsOf(path) == IF path \in DOMAIN shardFiles THEN shardFiles[path].items
                         ELSE <<>>
        f[n \in 0..Len(files)] ==
            IF n = 0 THEN <<>> ELSE f[n - 1] \o itemsOf(files[n])
    IN  SortByStartedDesc(f[Len(files)])

\* A variant that leaves the active incidents in the order of their start
SortActive_ByStart(active) == active

\* active.sort(by severityRank descending, then started_at descending)
SortActive(active) ==
    LET insert(sorted, x) ==
            LET k == Cardinality({i \in 1..Len(sorted) :
                        \/ severityRank(sorted[i].severity) > severityRank(x.severity)
                        \/ /\ severityRank(sorted[i].severity) = severityRank(x.severity)
                           /\ sorted[i].started_at >= x.started_at})
            IN  SubSeq(sorted, 1, k) \o <<x>> \o SubSeq(sorted, k + 1, Len(sorted))
        f[n \in 0..Len(active)] ==
            IF n = 0 THEN <<>> ELSE insert(f[n - 1], active[n])
    IN  f[Len(active)]

NoIncidentsMessage ==
    <<"No", "active", "incidents.", "Trains", "are", "currently", "running",
      "under", "normal", "operations.">>

\* The status file when there is none: the fallback of readJson
DefaultStatus ==
    [ overall_status |-> "operational",
      status_message |-> <<"No", "active", "incidents.">>,
      active_incident_ids |-> <<>> ]

\* What updateCurrentStatusFile writes (without updated_at, the time of the
\* run, and service_name)
updateCurrentStatusFile(files, shardFiles) ==
    LET written(active) ==
        [ overall_status |->
              IF active = <<>> THEN "operational"
              ELSE IF active[1].severity = "critical" THEN "critical"
              ELSE IF active[1].severity = "major" THEN "major"
              ELSE "degraded",
          status_message |->
              IF active = <<>> THEN NoIncidentsMessage
              ELSE IF active[1].summary # <<>> THEN active[1].summary
              ELSE active[1].title,
          active_incident_ids |-> [i \in 1..Len(active) |-> active[i].id] ]
    IN  written(SortActive(SelectSeq(collectAllIncidents(files, shardFiles),
                                     LAMBDA i : i.status # "resolved")))

-----------------------------------------------------------------------------
(* The reconciler as a state machine: any message, any number of times. *)

\* No run of main(): an empty mailbox, no state file, no status file
InitNoRun ==
    /\ mailbox = <<>>
    /\ seenFlags = {}
    /\ stateFile = <<>>
    /\ statusFile = DefaultStatus
    /\ pc = "idle"
    /\ uids = <<>>
    /\ cursor = 1
    /\ memIds = <<>>
    /\ changed = FALSE
    /\ runs = 0
    /\ start = [index |-> <<>>, shards |-> <<>>, processed |-> <<>>]
    /\ args = <<>>
    /\ result = <<>>

Init ==
    /\ tz \in TzOffsets
    /\ index = <<>>
    /\ shards = <<>>
    /\ last = <<>>
    /\ nEvents = 0
    /\ InitNoRun

\* new Date(undefined): an event without receivedAt has the invalid date
InvalidDate == NullTime - 1

\* The key of an event without subjectKey, which `inc-${day}-${subjectKey}`
\* prints as undefined
Undefined == "undefined"

\* A variant that names the shard before it formats the date: the index is
\* written, with the path of the invalid date, before toISOString throws
IndexBeforeThrow_PathFirst(files) ==
    <<"data/incidents/NaN-NaN/incidents.json">> \o files

\* index.files when eventDate.toISOString() throws (line 322): nothing is
\* written before it
IndexBeforeThrow(files) == files

applyEventToRepo(event) ==
    IF event.receivedAt = InvalidDate
    THEN /\ index' = IndexBeforeThrow(index)
         /\ last' = << [ event |-> event, path |-> "", id |-> "",
                         before |-> <<>>, thrown |-> "RangeError" ] >>
         /\ nEvents' = nEvents + 1
         /\ UNCHANGED <<shards, tz>>
    ELSE \E after \in {ShardAfter(shards, event, tz)} :
             /\ index' = IndexAfter(index, after.path)
             /\ shards' = WriteFile(shards, after.path, after.shard)
             /\ last' = << [ event |-> event, path |-> after.path, id |-> after.id,
                             before |-> after.before, thrown |-> "" ] >>
             /\ nEvents' = nEvents + 1
             /\ tz' = tz

Next ==
    /\ nEvents < MaxEvents
    /\ \E message \in Messages : applyEventToRepo(EventOf[message])
    /\ UNCHANGED <<mailVars, runVars, pageVars>>

Spec == Init /\ [][Next]_vars

-----------------------------------------------------------------------------
(* The reconciler over a shard that holds incidents it did not write: the  *)
(* sample incidents of the static prototype have ids of the same pattern   *)
(* and no ingestion_key. From the empty store the script never meets a     *)
(* known id (a shard never holds two incidents of one key), so the scan of *)
(* createIncidentId acts only on such shards.                              *)

MaxSampleEvents == 2

SampleIds ==
    << "inc-2024-02-01-delays", "inc-2024-02-01-delays-2", "inc-2024-02-01-delays-3" >>

SampleIncident(id) ==
    [ id |-> id,
      title |-> <<"Signal", "delay">>,
      severity |-> "major",
      status |-> "resolved",
      started_at |-> 760,
      resolved_at |-> 760,
      affected_segments |-> <<"System-wide">>,
      summary |-> <<"Signal", "delay">>,
      updates |-> <<>>,
      ingestion_key |-> "" ]

SamplePath == getShardPathForDate(760, 0)

InitSample ==
    /\ tz \in TzOffsets
    /\ \E ids \in SUBSET Range(SampleIds) :
          shards = WriteFile(<<>>, SamplePath,
                     [ period |-> IsoMonth(760),
                       items |-> MapSeq(SelectSeq(SampleIds, LAMBDA id : id \in ids),
                                        SampleIncident) ])
    /\ index = <<SamplePath>>
    /\ last = <<>>
    /\ nEvents = 0
    /\ InitNoRun

NextSample ==
    /\ nEvents < MaxSampleEvents
    /\ \E message \in Messages : applyEventToRepo(EventOf[message])
    /\ UNCHANGED <<mailVars, runVars, pageVars>>

SpecSample == InitSample /\ [][NextSample]_vars

-----------------------------------------------------------------------------
(* The reconciler called with events that lack a field: applyEventToRepo   *)
(* takes any object, and nothing but buildParsedEvent fills the fields.    *)

MaxMalformedEvents == 2

MalformedEvents ==
    LET some == {EventOf[m] : m \in {x \in Messages : x.bodyText = <<"delays">>}}
    IN  {[e EXCEPT !.receivedAt = InvalidDate] : e \in some}
            \cup {[e EXCEPT !.subjectKey = Undefined] : e \in some}
            \cup {[e EXCEPT !.title = <<>>] : e \in some}
            \cup {[e EXCEPT !.summary = <<>>] : e \in some}

NextMalformed ==
    /\ nEvents < MaxMalformedEvents
    /\ \/ \E message \in Messages : applyEventToRepo(EventOf[message])
       \/ \E event \in MalformedEvents : applyEventToRepo(event)
    /\ UNCHANGED <<mailVars, runVars, pageVars>>

SpecMalformed == Init /\ [][NextMalformed]_vars

-----------------------------------------------------------------------------
(* The ingestion driver main(): one run reads the unseen mail and applies   *)
(* it message by message. A step of the model is a stretch of main() that   *)
(* ends with a write to a file or to the mailbox; a run can fail before any *)
(* of its writes, and a failed run leaves what it wrote so far.             *)

MaxMail == 2
MaxRuns == 2

\* INGEST_SUBJECT_MATCH of the runs; INGEST_FROM_MATCH is not set, and
\* IMAP_MARK_SEEN has its default, true.
IngestSubjectMatch == "caltrain"

passesFilters(message) ==
    LET subject == MapSeq(message.subject, toLowerCase)
    IN  IngestSubjectMatch # "" => HasWord(subject, {IngestSubjectMatch})

MailMessages ==
    { m \in Messages :
        /\ m.subject \in { <<"Re:", "Caltrain", "Delays">>, <<"DELAYS">> }
        /\ m.bodyText \in { <<"delays">>, <<"restored", "southbound">> } }

Mailboxes == UNION { [1..n -> MailMessages] : n \in 1..MaxMail }

InitRun ==
    /\ tz \in TzOffsets
    /\ index = <<>>
    /\ shards = <<>>
    /\ last = <<>>
    /\ nEvents = 0
    /\ mailbox \in Mailboxes
    /\ seenFlags = {}
    /\ stateFile = <<>>
    /\ statusFile = DefaultStatus
    /\ pc = "idle"
    /\ uids = <<>>
    /\ cursor = 1
    /\ memIds = <<>>
    /\ changed = FALSE
    /\ runs = 0
    /\ start = [index |-> <<>>, shards |-> <<>>, processed |-> <<>>]
    /\ args = <<>>
    /\ result = <<>>

\* client.search({ seen: false })
SearchUnseen ==
    SelectSeq([i \in 1..Len(mailbox) |-> i], LAMBDA uid : uid \notin seenFlags)

\* What saveState writes (without last_run_at, the time of the run); no run
\* of the model comes near the 5000 ids that slice(-5000) keeps.
saveState(ids) == DedupArray(ids)

CurrentMessage == mailbox[uids[cursor]]

InLoop == pc = "fetch" /\ cursor <= Len(uids)

\* main() up to the search, and the save of the state when nothing is unseen
StartRun ==
    /\ pc = "idle"
    /\ runs < MaxRuns
    /\ runs' = runs + 1
    /\ uids' = SearchUnseen
    /\ cursor' = 1
    /\ memIds' = stateFile
    /\ changed' = FALSE
    /\ nEvents' = 0
    /\ start' = [index |-> index, shards |-> shards, processed |-> stateFile]
    /\ IF SearchUnseen = <<>>
       THEN pc' = "idle" /\ stateFile' = saveState(stateFile)
       ELSE pc' = "fetch" /\ stateFile' = stateFile
    /\ UNCHANGED <<pageVars, tz, storeVars, last, mailbox, seenFlags, statusFile>>

\* A message whose id is among the processed ids: flagged and passed over
SkipProcessed ==
    /\ InLoop
    /\ CurrentMessage.messageId \in Range(memIds)
    /\ seenFlags' = seenFlags \cup {uids[cursor]}
    /\ cursor' = cursor + 1
    /\ UNCHANGED <<pageVars, tz, storeVars, last, nEvents, mailbox, stateFile, statusFile,
                   pc, uids, memIds, changed, runs, start>>

\* A message the filters reject: remembered as processed, flagged
SkipFiltered ==
    /\ InLoop
    /\ CurrentMessage.messageId \notin Range(memIds)
    /\ ~passesFilters(CurrentMessage)
    /\ memIds' = Append(memIds, CurrentMessage.messageId)
    /\ seenFlags' = seenFlags \cup {uids[cursor]}
    /\ cursor' = cursor + 1
    /\ UNCHANGED <<pageVars, tz, storeVars, last, nEvents, mailbox, stateFile, statusFile,
                   pc, uids, changed, runs, start>>

\* A variant that flags the message before its event is applied
ApplyIndex_FlagsFirst ==
    /\ InLoop
    /\ CurrentMessage.messageId \notin Range(memIds)
    /\ passesFilters(CurrentMessage)
    /\ index' = IndexAfter(index,
                   getShardPathForDate(EventOf[CurrentMessage].receivedAt, tz))
    /\ seenFlags' = seenFlags \cup {uids[cursor]}
    /\ pc' = "shard"
    /\ UNCHANGED <<pageVars, tz, shards, last, nEvents, mailbox, stateFile, statusFile,
                   uids, cursor, memIds, changed, runs, start>>

\* A variant that applies the event of a message whatever the filters say
ApplyIndex_Unfiltered ==
    /\ InLoop
    /\ CurrentMessage.messageId \notin Range(memIds)
    /\ index' = IndexAfter(index,
                   getShardPathForDate(EventOf[CurrentMessage].receivedAt, tz))
    /\ pc' = "shard"
    /\ UNCHANGED <<pageVars, tz, shards, last, nEvents, mailVars,
                   uids, cursor, memIds, changed, runs, start>>

\* applyEventToRepo up to the write of the index
ApplyIndex ==
    /\ InLoop
    /\ CurrentMessage.messageId \notin Range(memIds)
    /\ passesFilters(CurrentMessage)
    /\ index' = IndexAfter(index,
                   getShardPathForDate(EventOf[CurrentMessage].receivedAt, tz))
    /\ pc' = "shard"
    /\ UNCHANGED <<pageVars, tz, shards, last, nEvents, mailVars,
                   uids, cursor, memIds, changed, runs, start>>

\* applyEventToRepo from the load of the shard to its write, and main() up
\* to the flagging of the message
ApplyShard ==
    /\ pc = "shard"
    /\ \E after \in {ShardAfter(shards, EventOf[CurrentMessage], tz)} :
           /\ shards' = WriteFile(shards, after.path, after.shard)
           /\ last' = << [ event |-> EventOf[CurrentMessage], path |-> after.path,
                           id |-> after.id, before |-> after.before,
                           thrown |-> "" ] >>
    /\ nEvents' = nEvents + 1
    /\ memIds' = Append(memIds, CurrentMessage.messageId)
    /\ changed' = TRUE
    /\ pc' = "flag"
    /\ UNCHANGED <<pageVars, tz, index, mailVars, uids, cursor, runs, start>>

\* messageFlagsAdd(msg.uid, ["\\Seen"]) of a message that was applied
FlagSeen ==
    /\ pc = "flag"
    /\ seenFlags' = seenFlags \cup {uids[cursor]}
    /\ cursor' = cursor + 1
    /\ pc' = "fetch"
    /\ UNCHANGED <<pageVars, tz, storeVars, last, nEvents, mailbox, stateFile, statusFile,
                   uids, memIds, changed, runs, start>>

\* After the loop: the status file is rewritten when a message was applied
UpdateStatus ==
    /\ pc = "fetch"
    /\ cursor > Len(uids)
    /\ statusFile' = IF changed THEN updateCurrentStatusFile(index, shards)
                     ELSE statusFile
    /\ pc' = "save"
    /\ UNCHANGED <<pageVars, tz, storeVars, last, nEvents, mailbox, seenFlags, stateFile,
                   uids, cursor, memIds, changed, runs, start>>

\* saveState(state), the end of the run
SaveState ==
    /\ pc = "save"
    /\ stateFile' = saveState(memIds)
    /\ pc' = "idle"
    /\ UNCHANGED <<pageVars, tz, storeVars, last, nEvents, mailbox, seenFlags, statusFile,
                   uids, cursor, memIds, changed, runs, start>>

\* The run fails (an await rejects, a write throws) or is abandoned: main()
\* ends, and nothing of what is in memory is written.
Fail ==
    /\ pc # "idle"
    /\ pc' = "idle"
    /\ UNCHANGED <<pageVars, tz, storeVars, last, nEvents, mailVars,
                   uids, cursor, memIds, changed, runs, start>>

NextRun ==
    \/ StartRun
    \/ SkipProcessed
    \/ SkipFiltered
    \/ ApplyIndex
    \/ ApplyShard
    \/ FlagSeen
    \/ UpdateStatus
    \/ SaveState
    \/ Fail

SpecRun == InitRun /\ [][NextRun]_vars

-----------------------------------------------------------------------------
(* The reconciler and the status file: messages of every severity are      *)
(* applied, and the status file is rewritten after messages were applied,   *)
(* as main() does at the end of a run.                                      *)

MaxStatusEvents == 3

StatusMessages ==
    { [ messageId |-> <<s, b, t>>, subject |-> s, bodyText |-> b, receivedAt |-> t ] :
        s \in { <<"DELAYS">>, <<"Caltrain", "Alert">> },
        b \in { <<"delays">>, <<"single-track">>, <<"shutdown", "northbound">>,
                <<"restored", "southbound">> },
        t \in Times }

StatusEventOf == [m \in StatusMessages |-> buildParsedEvent(m)]

Reconcile ==
    /\ nEvents < MaxStatusEvents
    /\ \E message \in StatusMessages : applyEventToRepo(StatusEventOf[message])
    /\ changed' = TRUE
    /\ UNCHANGED <<pageVars, mailVars, pc, uids, cursor, memIds, runs, start>>

RefreshStatus ==
    /\ changed
    /\ statusFile' = updateCurrentStatusFile(index, shards)
    /\ changed' = FALSE
    /\ UNCHANGED <<pageVars, tz, storeVars, last, nEvents, mailbox, seenFlags, stateFile,
                   pc, uids, cursor, memIds, runs, start>>

NextStatus == Reconcile \/ RefreshStatus

SpecStatus == Init /\ [][NextStatus]_vars

-----------------------------------------------------------------------------
(* The uptime of the status page. The page counts time in milliseconds; the *)
(* model counts it in ticks of half a minute, so that a window or a segment *)
(* can end inside a minute and a year of ticks is a number TLC can hold. A  *)
(* percentage is kept as the exact quotient num / den.                      *)

MinuteMs == 60000
HOUR_MS == 60 * 60 * 1000
DAY_MS == 24 * HOUR_MS

TickMs == MinuteMs \div 2
Ticks(ms) == ms \div TickMs

Tick == Ticks(TickMs)
Minute == Ticks(MinuteMs)
Day == Ticks(DAY_MS)

MaxTick == 4
MaxSegments == 2

Min(a, b) == IF a <= b THEN a ELSE b
Max(a, b) == IF a >= b THEN a ELSE b

\* segments.sort((a, b) => a.start - b.start)
SortByStartAsc(segments) ==
    LET insert(sorted, x) ==
            LET k == Cardinality({i \in 1..Len(sorted) : sorted[i].start <= x.start})
            IN  SubSeq(sorted, 1, k) \o <<x>> \o SubSeq(sorted, k + 1, Len(sorted))
        f[n \in 0..Len(segments)] ==
            IF n = 0 THEN <<>> ELSE insert(f[n - 1], segments[n])
    IN  f[Len(segments)]

\* A variant that keeps the segments whole
clippedSegments_Whole(segments, windowStart, windowEnd) ==
    SortByStartAsc(SelectSeq(segments,
        LAMBDA c : Min(c.end, windowEnd) > Max(c.start, windowStart)))

clippedSegments(segments, windowStart, windowEnd) ==
    LET clip(segment) ==
            [ start |-> Max(segment.start, windowStart),
              end |-> Min(segment.end, windowEnd),
              severity |-> segment.severity ]
    IN  SortByStartAsc(SelectSeq(MapSeq(segments, clip),
                                 LAMBDA c : c.end > c.start))

\* A variant that adds up the lengths of the clipped segments
MergeRuns_Sum(clipped) ==
    LET f[n \in 0..Len(clipped)] ==
            IF n = 0 THEN 0 ELSE f[n - 1] + (clipped[n].end - clipped[n].start)
    IN  f[Len(clipped)]

\* The loop of mergedDowntimeMs over the clipped segments
MergeRuns(clipped) ==
    LET step(run, segment) ==
            IF segment.start <= run.currentEnd
            THEN [run EXCEPT !.currentEnd = Max(run.currentEnd, segment.end)]
            ELSE [ total |-> run.total + (run.currentEnd - run.currentStart),
                   currentStart |-> segment.start,
                   currentEnd |-> segment.end ]
        f[n \in 1..Len(clipped)] ==
            IF n = 1
            THEN [ total |-> 0, currentStart |-> clipped[1].start,
                   currentEnd |-> clipped[1].end ]
            ELSE step(f[n - 1], clipped[n])
        sum(run) == run.total + (run.currentEnd - run.currentStart)
    IN  sum(f[Len(clipped)])

\* The downtime of the earlier revision of the page (milliseconds there, ticks here)
mergedDowntimeMs(segments, windowStart, windowEnd) ==
    LET merged(clipped) == IF clipped = <<>> THEN 0 ELSE MergeRuns(clipped)
    IN  merged(clippedSegments(segments, windowStart, windowEnd))

FloorMinute(t) == t \div Minute
CeilMinute(t) == (t + Minute - 1) \div Minute

\* A variant that counts the minutes of each clipped segment on their own
mergedDowntimeBuckets_PerSegment(segments, windowStart, windowEnd) ==
    LET count(clipped) ==
            LET f[n \in 0..Len(clipped)] ==
                    IF n = 0 THEN 0
                    ELSE f[n - 1] + CeilMinute(clipped[n].end)
                                  - FloorMinute(clipped[n].start)
            IN  f[Len(clipped)]
    IN  count(clippedSegments(segments, windowStart, windowEnd))

\* The downtime of app.js: the number of minutes a clipped segment touches
mergedDowntimeBuckets(segments, windowStart, windowEnd) ==
    LET occupied(clipped) ==
            UNION { FloorMinute(clipped[i].start) .. (CeilMinute(clipped[i].end) - 1) :
                    i \in 1..Len(clipped) }
    IN  Cardinality(occupied(clippedSegments(segments, windowStart, windowEnd)))

Percent(num, den) == [num |-> num, den |-> den]

\* A variant that gives the percentage of the downtime
ClampPercent_Downtime(denominator, downtime) ==
    IF downtime >= denominator THEN Percent(100, 1)
    ELSE IF downtime <= 0 THEN Percent(0, 1)
    ELSE Percent(100 * downtime, denominator)

\* Math.max(0, Math.min(100, ((denominator - downtime) / denominator) * 100))
ClampPercent(denominator, downtime) ==
    IF downtime >= denominator THEN Percent(0, 1)
    ELSE IF downtime <= 0 THEN Percent(100, 1)
    ELSE Percent(100 * (denominator - downtime), denominator)

\* uptimeForWindow of the earlier revision
uptimeForWindowMs(segments, windowStart, windowEnd) ==
    IF windowEnd - windowStart <= 0 THEN Percent(100, 1)
    ELSE ClampPercent(windowEnd - windowStart,
                      mergedDowntimeMs(segments, windowStart, windowEnd))

\* uptimeForWindow of app.js
uptimeForWindow(segments, windowStart, windowEnd) ==
    IF CeilMinute(windowEnd) - FloorMinute(windowStart) <= 0 THEN Percent(100, 1)
    ELSE ClampPercent(CeilMinute(windowEnd) - FloorMinute(windowStart),
                      mergedDowntimeBuckets(segments, windowStart, windowEnd))

WindowTimes == { k * Tick : k \in 0..MaxTick }

SegmentSet ==
    { [start |-> a, end |-> b, severity |-> v] :
        a \in WindowTimes, b \in WindowTimes, v \in {"minor", "major"} }

\* buildOutageSegments pushes a segment only when it ends after it starts
Segments == { g \in SegmentSet : g.end > g.start }

SegmentLists == UNION { [1..n -> Segments] : n \in 0..MaxSegments }

\* The page computes the uptime of one window from a list of segments
InitUptime ==
    /\ tz = 0
    /\ index = <<>>
    /\ shards = <<>>
    /\ last = <<>>
    /\ nEvents = 0
    /\ mailbox = <<>>
    /\ seenFlags = {}
    /\ stateFile = <<>>
    /\ statusFile = DefaultStatus
    /\ pc = "idle"
    /\ uids = <<>>
    /\ cursor = 1
    /\ memIds = <<>>
    /\ changed = FALSE
    /\ runs = 0
    /\ start = [index |-> <<>>, shards |-> <<>>, processed |-> <<>>]
    /\ \E segments \in SegmentLists, windowStart \in WindowTimes,
          windowEnd \in WindowTimes :
           args = << [ segments |-> segments, windowStart |-> windowStart,
                       windowEnd |-> windowEnd ] >>
    /\ result = <<>>

ComputeWindow ==
    /\ result = <<>>
    /\ \E a \in {args[1]} :
           result' =
             << [ clipped |-> clippedSegments(a.segments, a.windowStart, a.windowEnd),
                  downtimeMs |->
                      mergedDowntimeMs(a.segments, a.windowStart, a.windowEnd),
                  uptimeMs |->
                      uptimeForWindowMs(a.segments, a.windowStart, a.windowEnd),
                  downtimeBuckets |->
                      mergedDowntimeBuckets(a.segments, a.windowStart, a.windowEnd),
                  uptime |->
                      uptimeForWindow(a.segments, a.windowStart, a.windowEnd) ] >>
    /\ UNCHANGED <<args, tz, storeVars, last, nEvents, mailVars, runVars>>

NextUptime == ComputeWindow

SpecUptime == InitUptime /\ [][NextUptime]_vars

-----------------------------------------------------------------------------
(* The segments of downtime the page makes of the incidents. A time of the *)
(* page is a number of ticks since 1970-01-01T00:00Z, as getTime() is a    *)
(* number of milliseconds since then.                                      *)

\* new Date(null) is the date of time 0, and a date is truthy; new
\* Date(undefined) is the invalid date, for which parseDate returns null.
\* InvalidDate stands for the field that is absent and for the null returned.
parseDate(value) == IF value = NullTime THEN 0 ELSE value

\* The earlier revision's table; app.js has none
SEVERITY_RANK(severity) ==
    CASE severity = "operational" -> 0
      [] severity = "minor" -> 1
      [] severity = "degraded" -> 1
      [] severity = "major" -> 2
      [] severity = "critical" -> 3
      [] OTHER -> 0

\* "" stands for the value that is absent
normalizeSeverity(value) ==
    IF value = "" THEN "operational"
    ELSE IF value \in {"degraded", "minor", "major", "critical"} THEN value
    ELSE IF value \in {"identified", "investigating", "monitoring"} THEN "degraded"
    ELSE IF value = "resolved" THEN "operational"
    ELSE "degraded"

\* The numbers of the vocabulary; -1 for a word that is no number
DigitsOf(w) ==
    CASE w = "15" -> 15
      [] w = "45" -> 45
      [] OTHER -> -1

MinuteWords == {"min", "mins", "minute", "minutes"}

\* /(\d+)\s*(?:min|mins|minute|minutes)\b/i: the number of the first match,
\* <<>> for null
parseDelayMinutes(text) ==
    LET lower == MapSeq(text, toLowerCase)
        matches == { i \in 1..(Len(lower) - 1) :
                       DigitsOf(lower[i]) >= 0 /\ lower[i + 1] \in MinuteWords }
    IN  IF matches = {} THEN <<>>
        ELSE <<DigitsOf(lower[CHOOSE i \in matches : \A j \in matches : i <= j])>>

\* (incident.updates || []).map(message).join(" ")
RECURSIVE UpdateMessages(_)
UpdateMessages(updates) ==
    IF updates = <<>> THEN <<>>
    ELSE Head(updates).message \o UpdateMessages(Tail(updates))

CancelWords == {"cancel", "canceled", "cancelled", "cancellation"}

severityForIncident(incident) ==
    LET title == MapSeq(incident.title, toLowerCase)
        summary == MapSeq(incident.summary, toLowerCase)
        updateMessages == MapSeq(UpdateMessages(incident.updates), toLowerCase)
        haystack == title \o summary \o updateMessages
        delayMinutes == IF parseDelayMinutes(title) # <<>> THEN parseDelayMinutes(title)
                        ELSE IF parseDelayMinutes(summary) # <<>>
                             THEN parseDelayMinutes(summary)
                             ELSE parseDelayMinutes(updateMessages)
    IN  IF HasWord(haystack, CancelWords) THEN "critical"
        ELSE IF HasPhrase(haystack, "platform", "change") THEN "operational"
        ELSE IF delayMinutes # <<>>
             THEN (IF delayMinutes[1] >= 30 THEN "major" ELSE "minor")
             ELSE normalizeSeverity(incident.severity)

\* incidentEnd = resolvedAt || referenceNow
IncidentEnd(incident, referenceNow) ==
    IF parseDate(incident.resolved_at) # InvalidDate
    THEN parseDate(incident.resolved_at)
    ELSE referenceNow

\* buildOutageSegments of app.js: one segment for an incident
RECURSIVE buildOutageSegments(_, _)
buildOutageSegments(items, referenceNow) ==
    IF items = <<>> THEN <<>>
    ELSE LET incident == Head(items)
             incidentSeverity == severityForIncident(incident)
             startedAt == parseDate(incident.started_at)
             incidentEnd == IncidentEnd(incident, referenceNow)
             segment == IF \/ incidentSeverity = "operational"
                           \/ startedAt = InvalidDate
                           \/ incidentEnd <= startedAt
                        THEN <<>>
                        ELSE << [ start |-> startedAt, end |-> incidentEnd,
                                  severity |-> incidentSeverity ] >>
         IN  segment \o buildOutageSegments(Tail(items), referenceNow)

\* A variant that takes the times of the updates as they are, not cut to the
\* incident
StateSegments_Unclamped(updates, startedAt, incidentEnd) ==
    LET segmentOf(i) ==
            LET segStart == parseDate(updates[i].timestamp)
                segEnd == IF i < Len(updates)
                          THEN parseDate(updates[i + 1].timestamp)
                          ELSE incidentEnd
                stateSeverity == normalizeSeverity(updates[i].state)
            IN  IF segEnd <= segStart \/ stateSeverity = "operational" THEN <<>>
                ELSE << [ start |-> segStart, end |-> segEnd,
                          severity |-> stateSeverity ] >>
        f[n \in 0..Len(updates)] ==
            IF n = 0 THEN <<>> ELSE f[n - 1] \o segmentOf(n)
    IN  f[Len(updates)]

\* The segments of the updates of one incident, in the earlier revision: an
\* update lasts until the next one, or until the end of the incident
StateSegments(updates, startedAt, incidentEnd) ==
    LET segmentOf(i) ==
            LET segStart == Max(startedAt, parseDate(updates[i].timestamp))
                segEnd == Min(incidentEnd,
                              IF i < Len(updates)
                              THEN parseDate(updates[i + 1].timestamp)
                              ELSE incidentEnd)
                stateSeverity == normalizeSeverity(updates[i].state)
            IN  IF segEnd <= segStart \/ stateSeverity = "operational" THEN <<>>
                ELSE << [ start |-> segStart, end |-> segEnd,
                          severity |-> stateSeverity ] >>
        f[n \in 0..Len(updates)] ==
            IF n = 0 THEN <<>> ELSE f[n - 1] \o segmentOf(n)
    IN  f[Len(updates)]

\* buildOutageSegments of the earlier revision
RECURSIVE buildOutageSegmentsByState(_, _)
buildOutageSegmentsByState(items, referenceNow) ==
    IF items = <<>> THEN <<>>
    ELSE LET incident == Head(items)
             startedAt == parseDate(incident.started_at)
             incidentEnd == IncidentEnd(incident, referenceNow)
             updates == SortByTimestampAsc(
                            SelectSeq(incident.updates,
                                LAMBDA u : parseDate(u.timestamp) # InvalidDate))
             severity == normalizeSeverity(incident.severity)
             segments ==
                 IF startedAt = InvalidDate \/ incidentEnd <= startedAt THEN <<>>
                 ELSE IF updates = <<>>
                 THEN (IF severity # "operational"
                       THEN << [ start |-> startedAt, end |-> incidentEnd,
                                 severity |-> severity ] >>
                       ELSE <<>>)
                 ELSE StateSegments(updates, startedAt, incidentEnd)
         IN  segments \o buildOutageSegmentsByState(Tail(items), referenceNow)

\* maxSeverityForWindow of the earlier revision
maxSeverityForWindow(segments, windowStart, windowEnd) ==
    LET f[n \in 0..Len(segments)] ==
            IF n = 0 THEN "operational"
            ELSE IF segments[n].end <= windowStart \/ segments[n].start >= windowEnd
                 THEN f[n - 1]
                 ELSE IF SEVERITY_RANK(segments[n].severity) > SEVERITY_RANK(f[n - 1])
                      THEN segments[n].severity
                      ELSE f[n - 1]
    IN  f[Len(segments)]

-----------------------------------------------------------------------------
(* The calendar of the page. The browser is taken to be on UTC, without    *)
(* daylight saving; the months are those of 2023 to 2025.                  *)

\* The days from 1970-01-01 to 2023-01-01: 53 years, 13 of them leap years
DaysBefore2023 == 53 * 365 + 13

LastMonth == 25

\* The days from 2023-01-01 to the start of each month, from January 2023 to
\* February 2025; 2024 is a leap year
DaysToMonth ==
    << 0, 31, 59, 90, 120, 151, 181, 212, 243, 273, 304, 334,
       365, 396, 425, 456, 486, 517, 547, 578, 609, 639, 670, 700,
       731, 762 >>

\* The day, since 1970-01-01, on which a month starts; month counts the
\* months since January 2023
MonthStartDay ==
    [month \in 0..LastMonth |-> DaysBefore2023 + DaysToMonth[month + 1]]

MonthStart(month) == MonthStartDay[month] * Day

\* The month of a date: date.getFullYear(), date.getMonth()
MonthIndex(date) ==
    CHOOSE month \in 0..(LastMonth - 1) :
        MonthStart(month) <= date /\ date < MonthStart(month + 1)

startOfDay(date) == (date \div Day) * Day

startOfMonth(date) == MonthStart(MonthIndex(date))

addDays(date, days) == date + days * Day

\* A variant that takes a month for thirty days
addMonths_ThirtyDays(date, months) == date + months * 30 * Day

\* new Date(date.getFullYear(), date.getMonth() + months, 1)
addMonths(date, months) == MonthStart(MonthIndex(date) + months)

-----------------------------------------------------------------------------
(* The uptime report of the page, in app.js and in the earlier revision.  *)

\* A variant with the bands of the earlier revision
uptimeBandForPercent_FourBands(value) ==
    IF 20 * value.num >= 1999 * value.den THEN "operational"
    ELSE IF value.num >= 99 * value.den THEN "degraded"
    ELSE IF value.num >= 97 * value.den THEN "major"
    ELSE "critical"

\* The band of a percentage in app.js
uptimeBandForPercent(value) ==
    IF value.num >= 98 * value.den THEN "operational"
    ELSE IF value.num >= 95 * value.den THEN "degraded"
    ELSE "major"

\* The band of a percentage in the earlier revision; n >= 99.95 is
\* 20 n >= 1999
severityForUptimePercent(value) ==
    IF 20 * value.num >= 1999 * value.den THEN "operational"
    ELSE IF value.num >= 99 * value.den THEN "degraded"
    ELSE IF value.num >= 97 * value.den THEN "major"
    ELSE "critical"

MonthCount == 12
DayCount == 30

\* The window of a month in app.js: offset 0 is the current month, and the
\* month in progress ends at the start of the current day
monthWindow(referenceNow, offset) ==
    LET completedDayBoundary == startOfDay(referenceNow)
        monthStart == addMonths(startOfMonth(referenceNow), offset)
        monthEnd == addMonths(monthStart, 1)
        effectiveMonthEnd == IF monthEnd > completedDayBoundary
                             THEN completedDayBoundary ELSE monthEnd
    IN  [start |-> monthStart, end |-> effectiveMonthEnd]

\* The window of a day in app.js: offset 0 is the current day
dayWindow(referenceNow, offset) ==
    LET completedDayBoundary == startOfDay(referenceNow)
        dayStart == addDays(completedDayBoundary, offset)
        dayEnd == addDays(dayStart, 1)
    IN  [start |-> dayStart, end |-> dayEnd]

\* The window of a month in the earlier revision
monthWindowByState(referenceNow, offset) ==
    LET monthStart == addMonths(startOfMonth(referenceNow), offset)
        monthEndCandidate == addMonths(monthStart, 1)
        monthEnd == IF monthEndCandidate > referenceNow
                    THEN referenceNow ELSE monthEndCandidate
    IN  [start |-> monthStart, end |-> monthEnd]

\* The window of a day in the earlier revision
dayWindowByState(referenceNow, offset) ==
    LET todayStart == startOfDay(referenceNow)
        dayStart == addDays(todayStart, offset)
        dayEndCandidate == addDays(dayStart, 1)
        dayEnd == IF dayEndCandidate > referenceNow
                  THEN referenceNow ELSE dayEndCandidate
    IN  [start |-> dayStart, end |-> dayEnd]

\* for (let offset = 0; offset >= -11; offset -= 1)
MonthOffset(i) == 1 - i

\* for (let offset = -29; offset <= 0; offset += 1)
DayOffset(i) == i - DayCount

\* computeUptimeFromIncidents of app.js; referenceNow is new Date(). A month
\* or a day is named by its start.
computeUptimeFromIncidents(incidents, referenceNow) ==
    LET report(segments) ==
        LET monthRow(window) ==
                [ month |-> window.start,
                  uptime_percent |->
                      uptimeForWindow(segments, window.start, window.end) ]
            dayRow(window) ==
                LET row(dayUptime) ==
                        [ date |-> window.start,
                          uptime_percent |-> dayUptime,
                          uptime_band |-> uptimeBandForPercent(dayUptime) ]
                IN  row(uptimeForWindow(segments, window.start, window.end))
        IN  [ generated_at |-> referenceNow,
              summary |->
                [ last24h |-> uptimeForWindow(segments, referenceNow - Day,
                                              referenceNow),
                  last30d |-> uptimeForWindow(segments, referenceNow - 30 * Day,
                                              referenceNow),
                  last90d |-> uptimeForWindow(segments, referenceNow - 90 * Day,
                                              referenceNow) ],
              monthly |-> [i \in 1..MonthCount |->
                              monthRow(monthWindow(referenceNow, MonthOffset(i)))],
              recent_days |-> [i \in 1..DayCount |->
                                  dayRow(dayWindow(referenceNow, DayOffset(i)))] ]
    IN  report(buildOutageSegments(incidents.items, referenceNow))

\* computeUptimeFromIncidents of the earlier revision; referenceNow is
\* parseDate(current.updated_at) || new Date()
computeUptimeFromIncidentsByState(incidents, referenceNow) ==
    LET report(segments) ==
        LET monthRow(window) ==
                [ month |-> window.start,
                  uptime_percent |->
                      uptimeForWindowMs(segments, window.start, window.end) ]
            dayRow(window) ==
                LET row(daySeverity) ==
                        [ date |-> window.start,
                          uptime_percent |->
                              uptimeForWindowMs(segments, window.start, window.end),
                          severity |-> IF daySeverity = "minor" THEN "degraded"
                                       ELSE daySeverity ]
                IN  row(maxSeverityForWindow(segments, window.start, window.end))
        IN  [ generated_at |-> referenceNow,
              summary |->
                [ last24h |-> uptimeForWindowMs(segments, referenceNow - Day,
                                                referenceNow),
                  last30d |-> uptimeForWindowMs(segments, referenceNow - 30 * Day,
                                                referenceNow),
                  last90d |-> uptimeForWindowMs(segments, referenceNow - 90 * Day,
                                                referenceNow) ],
              monthly |-> [i \in 1..MonthCount |->
                              monthRow(monthWindowByState(referenceNow, MonthOffset(i)))],
              recent_days |-> [i \in 1..DayCount |->
                                  dayRow(dayWindowByState(referenceNow, DayOffset(i)))] ]
    IN  report(buildOutageSegmentsByState(incidents.items, referenceNow))

\* The class of the bar of each month, in renderUptime
chartFill(uptime) ==
    [i \in 1..Len(uptime.monthly) |->
        uptimeBandForPercent(uptime.monthly[i].uptime_percent)]

\* The same in the earlier revision
chartFillByState(uptime) ==
    [i \in 1..Len(uptime.monthly) |->
        severityForUptimePercent(uptime.monthly[i].uptime_percent)]

-----------------------------------------------------------------------------
(* The incident series of the page and its timeline. *)

\* version_created_at || updated_at || updates.at(-1).timestamp ||
\* started_at: the reconciler writes neither of the first two
incidentSortTimestamp(incident) ==
    IF incident.updates # <<>>
    THEN incident.updates[Len(incident.updates)].timestamp
    ELSE incident.started_at

\* sort((a, b) => new Date(incidentSortTimestamp(b)) -
\* new Date(incidentSortTimestamp(a)))
SortBySortTimestampDesc(items) ==
    LET insert(sorted, x) ==
            LET k == Cardinality({i \in 1..Len(sorted) :
                        incidentSortTimestamp(sorted[i]) >= incidentSortTimestamp(x)})
            IN  SubSeq(sorted, 1, k) \o <<x>> \o SubSeq(sorted, k + 1, Len(sorted))
        f[n \in 0..Len(items)] ==
            IF n = 0 THEN <<>> ELSE insert(f[n - 1], items[n])
    IN  f[Len(items)]

\* The items of all files, in the order of the files
RECURSIVE FileItems(_)
FileItems(seriesFiles) ==
    IF seriesFiles = <<>> THEN <<>>
    ELSE Head(seriesFiles).items \o FileItems(Tail(seriesFiles))

\* mergeIncidentSeries of app.js: items is an array of its own
mergeIncidentSeries(seriesFiles) ==
    [items |-> SortBySortTimestampDesc(FileItems(seriesFiles))]

\* mergeIncidentSeries of the earlier revision: one record for an id, the
\* one with the latest timestamp, the later in the files when they tie
mergeIncidentSeriesById(seriesFiles) ==
    LET all == FileItems(seriesFiles)
        put(byId, incident) ==
            IF \E k \in 1..Len(byId) : byId[k].id = incident.id
            THEN [k \in 1..Len(byId) |->
                    IF byId[k].id = incident.id
                       /\ incidentSortTimestamp(incident)
                            >= incidentSortTimestamp(byId[k])
                    THEN incident ELSE byId[k]]
            ELSE Append(byId, incident)
        f[n \in 0..Len(all)] ==
            IF n = 0 THEN <<>> ELSE put(f[n - 1], all[n])
    IN  [items |-> SortByStartedDesc(f[Len(all)])]

isSameLocalDay(a, b) == startOfDay(a) = startOfDay(b)

\* timelineIncidentsForDisplay of app.js; referenceDate is
\* parseDate(current.as_of) || new Date(), and the reconciler writes no as_of
timelineIncidentsForDisplay(incidents, current, referenceDate) ==
    LET base == SortBySortTimestampDesc(
                    SelectSeq(incidents.items,
                        LAMBDA incident :
                            isSameLocalDay(parseDate(incidentSortTimestamp(incident)),
                                           referenceDate)))
        activeIds == current.active_incident_ids
        queue(id) == SelectSeq(base, LAMBDA incident : incident.id = id)
        taken(k) == Cardinality({j \in 1..(k - 1) : activeIds[j] = activeIds[k]})
        pick(k) ==
            LET q == queue(activeIds[k])
            IN  IF taken(k) < Len(q) THEN <<q[taken(k) + 1]>>
                ELSE IF q # <<>> THEN <<q[1]>>
                ELSE <<>>
        expanded[k \in 0..Len(activeIds)] ==
            IF k = 0 THEN <<>> ELSE expanded[k - 1] \o pick(k)
    IN  IF activeIds = <<>> THEN base
        ELSE SortBySortTimestampDesc(IF expanded[Len(activeIds)] # <<>>
                                     THEN expanded[Len(activeIds)] ELSE base)

\* The timeline of the earlier revision: incidents.items.slice().sort(...)
renderTimelineByState(incidents) == SortByStartedDesc(incidents.items)

\* A variant in which the page sorts the items of the file itself
RenderedSnapshot_SortsFile(file) ==
    [file EXCEPT !.items = SortBySortTimestampDesc(@)]

\* The loaded file after the page has rendered it. Every sort, push and
\* shift of the page is on an array the function made itself (items of
\* mergeIncidentSeries, the mapped updates, the clipped segments, base, the
\* queues and expanded of the timeline, the slice of renderTimeline), and no
\* function assigns to a field of an incident.
RenderedSnapshot(file) == file

-----------------------------------------------------------------------------
(* The page computing its report: the incidents are those the reconciler   *)
(* writes for one or two messages, with their times in ticks.              *)

ReportSubjects == { <<"DELAYS">>, <<"Platform", "change">> }

ReportBodies ==
    { <<"delays">>,
      <<"single-track">>,
      <<"trains", "cancelled", "single-track">>,
      <<"15", "min", "single-track">>,
      <<"45", "min", "delays">> }

ReportEvents ==
    { buildParsedEvent([ messageId |-> <<s, b>>, subject |-> s, bodyText |-> b,
                         receivedAt |-> 0 ]) :
        s \in ReportSubjects, b \in ReportBodies }

RestoredEvent ==
    buildParsedEvent([ messageId |-> <<"restored">>, subject |-> <<"DELAYS">>,
                       bodyText |-> <<"restored", "southbound">>, receivedAt |-> 0 ])

UpdateOfEvent(event, timestamp) ==
    [ timestamp |-> timestamp,
      state |-> event.updateState,
      message |-> event.updateMessage,
      source_message_id |-> event.messageId ]

\* The incident of one message received at startedAt, as NewIncident and
\* AppendUpdate make it (but for the date in its id, which the page does not
\* read). resolved_at is null, as the reconciler writes it for an open
\* incident, or InvalidDate for a record without the field.
OpenIncident(event, startedAt, resolvedAt) ==
    [ id |-> "inc-" \o event.subjectKey,
      title |-> event.title,
      severity |-> event.severity,
      status |-> event.incidentStatus,
      started_at |-> startedAt,
      resolved_at |-> resolvedAt,
      affected_segments |-> event.affectedSegments,
      summary |-> event.summary,
      updates |-> <<UpdateOfEvent(event, startedAt)>>,
      ingestion_key |-> event.subjectKey ]

\* The same incident after a second message, received at resolvedAt, that
\* says the service is restored: MergeIncident and AppendUpdate
ResolvedIncident(event, startedAt, resolvedAt) ==
    [ OpenIncident(event, startedAt, resolvedAt) EXCEPT
        !.status = "resolved",
        !.summary = RestoredEvent.summary,
        !.affected_segments = DedupArray(@ \o RestoredEvent.affectedSegments),
        !.updates = SortByTimestampAsc(Append(@, UpdateOfEvent(RestoredEvent, resolvedAt))) ]

\* 2024-02-01T16:00:30Z, 2024-03-15T00:00Z and 2024-01-31T23:59Z
ReferenceTimes ==
    { MonthStart(13) + 16 * 60 * Minute + Tick,
      MonthStart(14) + 14 * Day,
      MonthStart(13) - Minute }

\* The times of an incident, by how long before now
Offsets == { Day + Minute, Day, Day \div 2, Ticks(HOUR_MS), Tick }

ReportIncidents(now) ==
    UNION { { OpenIncident(event, now - started, NullTime),
              OpenIncident(event, now - started, InvalidDate),
              ResolvedIncident(event, now - started, now),
              ResolvedIncident(event, now - started, now - Minute) } :
            event \in ReportEvents, started \in Offsets }

\* Two incidents in one file, in the order the reconciler pushed them
ReportPairs(now) ==
    LET delays == buildParsedEvent([ messageId |-> <<"first">>,
                      subject |-> <<"DELAYS">>, bodyText |-> <<"single-track">>,
                      receivedAt |-> 0 ])
        platform == buildParsedEvent([ messageId |-> <<"second">>,
                      subject |-> <<"Platform", "change">>, bodyText |-> <<"delays">>,
                      receivedAt |-> 0 ])
        first == { OpenIncident(delays, now - Day, NullTime),
                   ResolvedIncident(delays, now - Day, now - Ticks(HOUR_MS)) }
        second == { OpenIncident(platform, now - Ticks(HOUR_MS), NullTime),
                    ResolvedIncident(delays, now - Ticks(HOUR_MS), now),
                    ResolvedIncident(platform, now - Day \div 2, now - Minute) }
    IN  { <<a, b>> : a \in first, b \in second }

\* active_incident_ids as updateCurrentStatusFile writes it
ActiveIds(items) ==
    LET ids(active) == [i \in 1..Len(active) |-> active[i].id]
    IN  ids(SortActive(SelectSeq(SortByStartedDesc(items),
                                 LAMBDA incident : incident.status # "resolved")))

MaxRefreshes == 2

InitReport ==
    /\ tz = 0
    /\ index = <<>>
    /\ shards = <<>>
    /\ last = <<>>
    /\ nEvents = 0
    /\ mailbox = <<>>
    /\ seenFlags = {}
    /\ stateFile = <<>>
    /\ statusFile = DefaultStatus
    /\ pc = "idle"
    /\ uids = <<>>
    /\ cursor = 1
    /\ memIds = <<>>
    /\ changed = FALSE
    /\ runs = 0
    /\ start = [index |-> <<>>, shards |-> <<>>, processed |-> <<>>]
    /\ \E now \in ReferenceTimes :
         \E updatedAt \in {InvalidDate, now - Minute} :
           \E items \in {<<>>} \cup { <<incident>> : incident \in ReportIncidents(now) }
                           \cup ReportPairs(now) :
              args = << [ incidents |-> [items |-> items],
                          now |-> now,
                          current |-> [ updated_at |-> updatedAt,
                                        active_incident_ids |-> ActiveIds(items) ] ] >>
    /\ result = <<>>

\* loadAndRender, from the file fetched to the report and the timeline
\* rendered; the page does it again at every refresh. The result keeps,
\* beside what is rendered, the segments and the windows the report was
\* made of.
ComputeReport ==
    /\ Len(result) < MaxRefreshes
    /\ \E a \in {args[1]} :
         \E referenceNow \in { IF parseDate(a.current.updated_at) # InvalidDate
                               THEN parseDate(a.current.updated_at) ELSE a.now } :
          \E incidents \in { mergeIncidentSeries(<<a.incidents>>) } :
           \E incidentsByState \in { mergeIncidentSeriesById(<<a.incidents>>) } :
            \E uptime \in { computeUptimeFromIncidents(incidents, a.now) } :
             \E uptimeByState \in { computeUptimeFromIncidentsByState(incidentsByState,
                                                                     referenceNow) } :
               /\ result' = Append(result,
                            [ uptime |-> uptime,
                              chartFill |-> chartFill(uptime),
                              timeline |->
                                  timelineIncidentsForDisplay(incidents, a.current,
                                                              a.now),
                              uptimeByState |-> uptimeByState,
                              chartFillByState |-> chartFillByState(uptimeByState),
                              timelineByState |->
                                  renderTimelineByState(incidentsByState),
                              referenceNowByState |-> referenceNow,
                              segments |->
                                  buildOutageSegments(incidents.items, a.now),
                              segmentsByState |->
                                  buildOutageSegmentsByState(incidentsByState.items,
                                                             referenceNow),
                              monthWindows |->
                                  [i \in 1..MonthCount |->
                                      monthWindow(a.now, MonthOffset(i))],
                              dayWindows |->
                                  [i \in 1..DayCount |->
                                      dayWindow(a.now, DayOffset(i))],
                              monthWindowsByState |->
                                  [i \in 1..MonthCount |->
                                      monthWindowByState(referenceNow, MonthOffset(i))],
                              dayWindowsByState |->
                                  [i \in 1..DayCount |->
                                      dayWindowByState(referenceNow, DayOffset(i))] ])
               /\ args' = << [a EXCEPT !.incidents = RenderedSnapshot(a.incidents)] >>
    /\ UNCHANGED <<tz, storeVars, last, nEvents, mailVars, runVars>>

NextReport == ComputeReport

SpecReport == InitReport /\ [][NextReport]_vars

-----------------------------------------------------------------------------
(* buildOutageSegments on incidents of any clocks: an incident resolved    *)
(* before it started, updates from before the start or after the end,      *)
(* fields that are absent. The times are small numbers of ticks; 0 is the  *)
(* time of new Date(null).                                                 *)

MaxUpdates == 2

SkewStart == 10

\* resolved_at: null, absent, before the start, at the start, after it
SkewResolved == {NullTime, InvalidDate, 5, SkewStart, 20}

\* referenceNow before the start and after every other time
SkewNow == {8, 30}

SkewUpdates ==
    { [ timestamp |-> t, state |-> state, message |-> <<"delays">>,
        source_message_id |-> <<"first">> ] :
        t \in {InvalidDate, 5, 15, 25},
        state \in {"major", "operational", ""} }

SkewUpdateLists == UNION { [1..n -> SkewUpdates] : n \in 0..MaxUpdates }

SkewIncidents ==
    { [ id |-> "inc-delays",
        title |-> title,
        severity |-> severity,
        status |-> IF resolvedAt \in {NullTime, InvalidDate}
                   THEN "investigating" ELSE "resolved",
        started_at |-> startedAt,
        resolved_at |-> resolvedAt,
        affected_segments |-> <<"System-wide">>,
        summary |-> <<"delays">>,
        updates |-> updates,
        ingestion_key |-> "delays" ] :
        title \in {<<"DELAYS">>, <<"Platform", "change">>},
        severity \in {"major", ""},
        startedAt \in {SkewStart, InvalidDate},
        resolvedAt \in SkewResolved,
        updates \in SkewUpdateLists }

\* Two incidents in one file: one without updates, one with two
SkewPairs ==
    { <<a, b>> : a \in {i \in SkewIncidents : i.updates = <<>>},
                 b \in {i \in SkewIncidents :
                          /\ Len(i.updates) = 2
                          /\ i.updates[1].timestamp = 15
                          /\ i.updates[1].state = "major"
                          /\ i.updates[2].timestamp \in {5, 25}
                          /\ i.updates[2].state = ""
                          /\ i.title = <<"DELAYS">>
                          /\ i.severity = "major" } }

InitSegments ==
    /\ tz = 0
    /\ index = <<>>
    /\ shards = <<>>
    /\ last = <<>>
    /\ nEvents = 0
    /\ mailbox = <<>>
    /\ seenFlags = {}
    /\ stateFile = <<>>
    /\ statusFile = DefaultStatus
    /\ pc = "idle"
    /\ uids = <<>>
    /\ cursor = 1
    /\ memIds = <<>>
    /\ changed = FALSE
    /\ runs = 0
    /\ start = [index |-> <<>>, shards |-> <<>>, processed |-> <<>>]
    /\ \E items \in { <<i>> : i \in SkewIncidents } \cup SkewPairs,
          referenceNow \in SkewNow :
           args = << [ incidents |-> [items |-> items],
                       referenceNow |-> referenceNow ] >>
    /\ result = <<>>

BuildSegments ==
    /\ result = <<>>
    /\ \E a \in {args[1]} :
           result' =
             << [ segments |-> buildOutageSegments(a.incidents.items, a.referenceNow),
                  segmentsByState |->
                      buildOutageSegmentsByState(a.incidents.items, a.referenceNow) ] >>
    /\ UNCHANGED <<args, tz, storeVars, last, nEvents, mailVars, runVars>>

NextSegments == BuildSegments

SpecSegments == InitSegments /\ [][NextSegments]_vars

-----------------------------------------------------------------------------
(* The page loading the snapshots of one incident: a file for each message, *)
(* with the incident as the reconciliation of that message left it. The     *)
(* times are small numbers of ticks, for the messages and for the page.     *)

MaxSnapshots == 3

SnapshotTimes == {2, 4, 6, 8}

SnapshotNow == 12

SnapshotEvents ==
    { buildParsedEvent([ messageId |-> <<b, t>>, subject |-> <<"DELAYS">>,
                         bodyText |-> b, receivedAt |-> t ]) :
        b \in { <<"single-track">>, <<"restored", "southbound">> },
        t \in SnapshotTimes }

\* The messages of an incident in the order of their reconciliation, which
\* need not be the order of their times; no message twice
SnapshotHistories ==
    { h \in UNION { [1..n -> SnapshotEvents] : n \in 2..MaxSnapshots } :
        \A i, j \in 1..Len(h) : h[i] = h[j] => i = j }

\* The incident after each message of the history
SnapshotRecords(history) ==
    LET f[n \in 1..Len(history)] ==
            IF n = 1
            THEN AppendUpdate(NewIncident(history[1], {}), history[1])
            ELSE AppendUpdate(MergeIncident(f[n - 1], history[n]), history[n])
    IN  [n \in 1..Len(history) |-> f[n]]

\* One file for each record, in the order of incident_file_paths
SnapshotFiles(history) ==
    LET records == SnapshotRecords(history)
    IN  [n \in 1..Len(records) |-> [items |-> <<records[n]>>]]

InitSnapshots ==
    /\ tz = 0
    /\ index = <<>>
    /\ shards = <<>>
    /\ last = <<>>
    /\ nEvents = 0
    /\ mailbox = <<>>
    /\ seenFlags = {}
    /\ stateFile = <<>>
    /\ statusFile = DefaultStatus
    /\ pc = "idle"
    /\ uids = <<>>
    /\ cursor = 1
    /\ memIds = <<>>
    /\ changed = FALSE
    /\ runs = 0
    /\ start = [index |-> <<>>, shards |-> <<>>, processed |-> <<>>]
    /\ \E history \in SnapshotHistories :
           args = << [ files |-> SnapshotFiles(history),
                       referenceNow |-> SnapshotNow ] >>
    /\ result = <<>>

\* fetchIncidentSeries and the segments of computeUptimeFromIncidents, in
\* app.js and in the earlier revision
LoadSnapshots ==
    /\ result = <<>>
    /\ \E a \in {args[1]} :
        \E incidents \in { mergeIncidentSeries(a.files) } :
         \E incidentsById \in { mergeIncidentSeriesById(a.files) } :
           result' =
             << [ incidents |-> incidents,
                  incidentsById |-> incidentsById,
                  segments |-> buildOutageSegments(incidents.items, a.referenceNow),
                  segmentsByState |->
                      buildOutageSegmentsByState(incidentsById.items,
                                                 a.referenceNow) ] >>
    /\ UNCHANGED <<args, tz, storeVars, last, nEvents, mailVars, runVars>>

NextSnapshots == LoadSnapshots

SpecSnapshots == InitSnapshots /\ [][NextSnapshots]_vars

-----------------------------------------------------------------------------
(* The uptime of a window for lists of segments of one severity: the         *)
(* severity of a segment has no part in uptimeForWindow.                     *)

InitOrder ==
    /\ tz = 0
    /\ index = <<>>
    /\ shards = <<>>
    /\ last = <<>>
    /\ nEvents = 0
    /\ mailbox = <<>>
    /\ seenFlags = {}
    /\ stateFile = <<>>
    /\ statusFile = DefaultStatus
    /\ pc = "idle"
    /\ uids = <<>>
    /\ cursor = 1
    /\ memIds = <<>>
    /\ changed = FALSE
    /\ runs = 0
    /\ start = [index |-> <<>>, shards |-> <<>>, processed |-> <<>>]
    /\ \E segments \in { list \in SegmentLists :
                            \A i \in 1..Len(list) : list[i].severity = "major" },
          windowStart \in WindowTimes, windowEnd \in WindowTimes :
           args = << [ segments |-> segments, windowStart |-> windowStart,
                       windowEnd |-> windowEnd ] >>
    /\ result = <<>>

SpecOrder == InitOrder /\ [][NextUptime]_vars

-----------------------------------------------------------------------------
(* The refreshes of the page: loadAndRender is called once at load and then  *)
(* by the timer, whether or not the call before it has ended. args holds the *)
(* calls in the order of their start, result the render steps in the order   *)
(* in which they ran.                                                        *)

MaxInvocations == 3

\* The file lists a successful response can carry
CurrentPathLists == { <<>>, <<"incidents/a.json">> }

ManifestPathLists == { <<"incidents/a.json", "incidents/b.json">> }

\* A call of loadAndRender that awaits fetchJson(DATA_FILES.current)
NewInvocation ==
    [ pc |-> "fetchCurrent", currentOk |-> FALSE, manifestOk |-> FALSE,
      files |-> <<>>, pending |-> {}, loaded |-> {}, failed |-> {} ]

\* fetchJson(DATA_FILES.current) settles: a rejection leaves the try block
AfterCurrent(inv, ok, currentPaths) ==
    IF ok
    THEN [inv EXCEPT !.pc = "fetchManifest", !.currentOk = TRUE,
                     !.files = currentPaths]
    ELSE [inv EXCEPT !.pc = "rejected"]

\* fetchJson(DATA_FILES.incidentsIndex) settles: a rejection is caught and
\* leaves manifestPaths empty; then the files are requested together
AfterManifest(inv, ok, manifestPaths) ==
    LET files == DedupArray(inv.files \o (IF ok THEN manifestPaths ELSE <<>>))
    IN  [inv EXCEPT !.pc = "fetchFiles", !.manifestOk = ok, !.files = files,
                    !.pending = { files[i] : i \in 1..Len(files) }]

\* A variant without the try block around the fetch of a file: the rejection
\* of one file rejects Promise.all
AfterFile_Rejects(inv, path, ok) ==
    IF ok
    THEN [inv EXCEPT !.pending = @ \ {path}, !.loaded = @ \cup {path}]
    ELSE [inv EXCEPT !.pc = "rejected", !.pending = {}, !.failed = @ \cup {path}]

\* The fetch of one incident file settles: a rejection is caught and gives null
AfterFile(inv, path, ok) ==
    [inv EXCEPT !.pending = @ \ {path},
                !.loaded = IF ok THEN @ \cup {path} ELSE @,
                !.failed = IF ok THEN @ ELSE @ \cup {path}]

\* loaded.filter(Boolean): the files that loaded, in the order of the requests
LoadedFiles(inv) == SelectSeq(inv.files, LAMBDA path : path \in inv.loaded)

\* The rest of loadAndRender once its last await has settled: the catch block
\* after a rejection, the four render calls when no file is awaited any more
RenderSteps(n, inv) ==
    IF inv.pc = "rejected"
    THEN << [refresh |-> n, step |-> "renderError", files |-> <<>>] >>
    ELSE IF inv.pc = "fetchFiles" /\ inv.pending = {}
    THEN << [refresh |-> n, step |-> "renderCurrentStatus", files |-> <<>>],
            [refresh |-> n, step |-> "renderUptime", files |-> LoadedFiles(inv)],
            [refresh |-> n, step |-> "renderTimeline", files |-> LoadedFiles(inv)],
            [refresh |-> n, step |-> "renderRefreshTime", files |-> <<>>] >>
    ELSE <<>>

Settle(n, inv) ==
    LET steps == RenderSteps(n, inv)
    IN  /\ args' = [args EXCEPT ![n] = IF steps = <<>> THEN inv
                                        ELSE [inv EXCEPT !.pc = "done"]]
        /\ result' = result \o steps
        /\ UNCHANGED <<tz, storeVars, last, nEvents, mailVars, runVars>>

InitRefresh ==
    /\ tz = 0
    /\ index = <<>>
    /\ shards = <<>>
    /\ last = <<>>
    /\ nEvents = 0
    /\ mailbox = <<>>
    /\ seenFlags = {}
    /\ stateFile = <<>>
    /\ statusFile = DefaultStatus
    /\ pc = "idle"
    /\ uids = <<>>
    /\ cursor = 1
    /\ memIds = <<>>
    /\ changed = FALSE
    /\ runs = 0
    /\ start = [index |-> <<>>, shards |-> <<>>, processed |-> <<>>]
    /\ args = << NewInvocation >>
    /\ result = <<>>

\* setInterval(loadAndRender, REFRESH_MS)
TimerFires ==
    /\ Len(args) < MaxInvocations
    /\ args' = Append(args, NewInvocation)
    /\ UNCHANGED <<result, tz, storeVars, last, nEvents, mailVars, runVars>>

CurrentResponds ==
    \E n \in 1..Len(args) :
        /\ args[n].pc = "fetchCurrent"
        /\ \E ok \in BOOLEAN, currentPaths \in CurrentPathLists :
               /\ ~ok => currentPaths = <<>>
               /\ Settle(n, AfterCurrent(args[n], ok, currentPaths))

ManifestResponds ==
    \E n \in 1..Len(args) :
        /\ args[n].pc = "fetchManifest"
        /\ \E ok \in BOOLEAN, manifestPaths \in ManifestPathLists :
               Settle(n, AfterManifest(args[n], ok, manifestPaths))

FileResponds ==
    \E n \in 1..Len(args) :
        /\ args[n].pc = "fetchFiles"
        /\ \E path \in args[n].pending, ok \in BOOLEAN :
               Settle(n, AfterFile(args[n], path, ok))

NextRefresh ==
    \/ TimerFires
    \/ CurrentResponds
    \/ ManifestResponds
    \/ FileResponds

SpecRefresh == InitRefresh /\ [][NextRefresh]_vars

-----------------------------------------------------------------------------
(* Vocabulary of the properties. *)

\* Every incident of the incident set, with the shard that holds it
StoredIncidents(files) ==
    UNION { {<<path, incident>> : incident \in Range(files[path].items)} :
            path \in DOMAIN files }

LastEvent == last[1].event

\* The incident the last call returned, as stored
LastIncident ==
    CHOOSE incident \in Range(shards[last[1].path].items) : incident.id = last[1].id

LastThrew == last # <<>> /\ last[1].thrown # ""
LastApplied == last # <<>> /\ last[1].thrown = ""
LastCreated == LastApplied /\ last[1].before = <<>>
LastMerged == LastApplied /\ last[1].before # <<>>

\* The incident set before the last call: the call touches one incident
StoredBeforeLast ==
    (StoredIncidents(shards) \ {<<last[1].path, LastIncident>>})
        \cup {<<last[1].path, last[1].before[i]>> : i \in 1..Len(last[1].before)}

MatchesEvent(incident, event) ==
    \/ incident.ingestion_key = event.subjectKey
    \/ normalizeSubject(incident.title) = normalizeSubject(event.title)

\* What findMatchingIncident reads of an event
MatchKinds ==
    { [subjectKey |-> e.subjectKey, title |-> e.title, incidentStatus |-> e.incidentStatus] :
        e \in Events }

IsOpen(incident) == incident.status # "resolved"

-----------------------------------------------------------------------------
\* C1: reconciling the event just reconciled once more leaves the persisted
\* incident set (every shard, every field) and the index as they are.
C1_Idempotence ==
    LastApplied =>
        LET again == ShardAfter(shards, LastEvent, tz)
        IN  /\ WriteFile(shards, again.path, again.shard) = shards
            /\ IndexAfter(index, again.path) = index

\* C2: for every key, at most one incident of the whole incident set has
\* that ingestion_key and is not resolved.
C2_AtMostOneOpen ==
    \A event \in Events :
        Cardinality({x \in StoredIncidents(shards) :
                        /\ x[2].ingestion_key = event.subjectKey
                        /\ IsOpen(x[2])}) <= 1

\* C3: the severity rank of an incident never decreases, and an event whose
\* severity ranks lower than or equal to the incident's leaves the
\* incident's severity as it is.
C3_StepKeepsRank ==
    \A path \in DOMAIN shards : \A incident \in Range(shards[path].items) :
        \E later \in Range(shards'[path].items) :
            /\ later.id = incident.id
            /\ severityRank(later.severity) >= severityRank(incident.severity)

C3_LowerEventKeepsSeverity ==
    LastMerged =>
        LET before == last[1].before[1]
        IN  /\ severityRank(LastIncident.severity) >= severityRank(before.severity)
            /\ severityRank(LastEvent.severity) <= severityRank(before.severity)
                   => LastIncident.severity = before.severity
            /\ severityRank(LastEvent.severity) > severityRank(before.severity)
                   => LastIncident.severity = LastEvent.severity

C3_MonotonicSeverity == [][C3_StepKeepsRank]_vars /\ []C3_LowerEventKeepsSeverity

\* A critical incident was resolved by an event of severity minor, or took a
\* minor update: it is still critical.
C3_Witness ==
    /\ LastMerged
    /\ last[1].before[1].severity = "critical"
    /\ LastEvent.severity = "minor"
    /\ LastEvent.incidentStatus = "resolved"

\* C4: in every incident the updates have distinct source_message_ids and
\* are in ascending order of timestamp, and a step removes or alters no
\* update: the updates before the step are among those after it, in order.
C4_DistinctSorted ==
    \A x \in StoredIncidents(shards) :
        LET updates == x[2].updates
        IN  \A i, j \in 1..Len(updates) :
                i < j => /\ updates[i].source_message_id # updates[j].source_message_id
                         /\ updates[i].timestamp <= updates[j].timestamp

C4_StepKeepsUpdates ==
    \A path \in DOMAIN shards : \A incident \in Range(shards[path].items) :
        \E later \in Range(shards'[path].items) :
            /\ later.id = incident.id
            /\ \E at \in [1..Len(incident.updates) -> 1..Len(later.updates)] :
                  /\ \A i \in DOMAIN at : later.updates[at[i]] = incident.updates[i]
                  /\ \A i, j \in DOMAIN at : i < j => at[i] < at[j]

C4_UpdatesInvariant == []C4_DistinctSorted /\ [][C4_StepKeepsUpdates]_vars

\* The second event of an incident is older than its first: its update is
\* put in front.
C4_Witness ==
    /\ LastMerged
    /\ nEvents = 2
    /\ Len(LastIncident.updates) = 2
    /\ LastIncident.updates[1].source_message_id = LastEvent.messageId
    /\ LastIncident.updates[1].timestamp < LastIncident.updates[2].timestamp

\* C5: after a resolving event the incident it was reconciled into is
\* resolved, with resolved_at the event's time, whatever it was before; an
\* incident the event created has started_at = resolved_at = that time.
C5_ResolutionTransition ==
    (LastApplied /\ LastEvent.incidentStatus = "resolved") =>
        /\ LastIncident.status = "resolved"
        /\ LastIncident.resolved_at = LastEvent.receivedAt
        /\ LastCreated => LastIncident.started_at = LastEvent.receivedAt

\* A resolved incident is resolved again, at another time.
C5_Witness ==
    /\ LastMerged
    /\ LastEvent.incidentStatus = "resolved"
    /\ last[1].before[1].status = "resolved"
    /\ last[1].before[1].resolved_at # LastEvent.receivedAt

\* C6: a non-resolving event that incidents match, all of them resolved,
\* reopens the most recently started of them and creates none; an incident
\* is created only when no incident of the set matches the event.
C6_ReopenNotDuplicate ==
    LastApplied =>
        LET matching == {x \in StoredBeforeLast : MatchesEvent(x[2], LastEvent)}
        IN  /\ LastCreated => matching = {}
            /\ ( /\ LastEvent.incidentStatus # "resolved"
                 /\ matching # {}
                 /\ \A x \in matching : ~IsOpen(x[2]) )
               => /\ LastMerged
                  /\ <<last[1].path, last[1].before[1]>> \in matching
                  /\ \A x \in matching :
                        x[2].started_at <= last[1].before[1].started_at
                  /\ LastIncident.status = "investigating"
                  /\ LastIncident.resolved_at = NullTime

\* C7: findMatchingIncident returns null iff the shard has no candidate; else
\* a candidate that is open if any is, and of the greatest started_at among
\* the open candidates, or among all when none is open; the event's status
\* does not change the result.
C7_MatchingSelection ==
    \A path \in DOMAIN shards : \A event \in MatchKinds :
        LET items == shards[path].items
            found == findMatchingIncident(shards[path], event)
            candidates == {i \in 1..Len(items) : MatchesEvent(items[i], event)}
            open == {i \in candidates : IsOpen(items[i])}
            pool == IF open # {} THEN open ELSE candidates
        IN  /\ found = 0 <=> candidates = {}
            /\ found # 0 =>
                 /\ found \in pool
                 /\ \A i \in pool : items[i].started_at <= items[found].started_at
            /\ \A status \in {"resolved", "investigating"} :
                 findMatchingIncident(shards[path],
                                      [event EXCEPT !.incidentStatus = status]) = found

\* An event has an open candidate and a resolved one that started later.
C7_Witness ==
    \E path \in DOMAIN shards : \E event \in MatchKinds :
        LET items == shards[path].items
            found == findMatchingIncident(shards[path], event)
        IN  /\ found # 0
            /\ \E i \in 1..Len(items) :
                 /\ MatchesEvent(items[i], event)
                 /\ ~IsOpen(items[i])
                 /\ items[i].started_at > items[found].started_at

\* C8: a created incident has the id inc-<UTC day>-<key> when no incident
\* of its shard has it, and else that id with the suffix -n of the least
\* n >= 2 that gives an id no incident of the shard has; no step changes the
\* id of an incident.
IdsOf(shard) == [i \in 1..Len(shard.items) |-> shard.items[i].id]

C8_CreatedId ==
    LastCreated =>
        LET known == {x.id : x \in Range(shards[last[1].path].items) \ {LastIncident}}
            base == "inc-" \o IsoDay(LastEvent.receivedAt) \o "-" \o LastEvent.subjectKey
            id == LastIncident.id
        IN  /\ id \notin known
            /\ IF base \notin known THEN id = base
               ELSE \E n \in 2..(Cardinality(known) + 1) :
                        /\ id = base \o "-" \o ToString(n)
                        /\ \A k \in 2..(n - 1) : (base \o "-" \o ToString(k)) \in known

C8_StepKeepsIds ==
    \A path \in DOMAIN shards' :
        LET old == IF path \in DOMAIN shards THEN IdsOf(shards[path]) ELSE <<>>
            new == IdsOf(shards'[path])
        IN  IF last' # last /\ last'[1].before = <<>> /\ last'[1].path = path
            THEN SelectSeq(new, LAMBDA id : id # last'[1].id) = old
            ELSE new = old

C8_IdAssignment == []C8_CreatedId /\ [][C8_StepKeepsIds]_vars

\* The id and the id with -2 are known: the created incident gets -3.
C8_Witness ==
    /\ LastCreated
    /\ LastIncident.id = "inc-2024-02-01-delays-3"
    /\ \E x \in Range(shards[last[1].path].items) : x.id = "inc-2024-02-01-delays-2"

\* C9: an event that lacks receivedAt or subjectKey is rejected: the call
\* fails, and it leaves the index and every shard as they were.
IsMalformed(event) == event.receivedAt = InvalidDate \/ event.subjectKey = Undefined

C9_RejectedStep ==
    (nEvents' # nEvents /\ IsMalformed(last'[1].event)) =>
        /\ last'[1].thrown # ""
        /\ index' = index
        /\ shards' = shards

C9_DateRejectedStep ==
    (nEvents' # nEvents /\ last'[1].event.receivedAt = InvalidDate) =>
        /\ index' = index
        /\ shards' = shards

C9_ThrowsIffNoDate ==
    last # <<>> =>
        /\ LastThrew <=> LastEvent.receivedAt = InvalidDate
        /\ LastApplied =>
             \E u \in Range(LastIncident.updates) :
                 u.source_message_id = LastEvent.messageId

-----------------------------------------------------------------------------
(* C10: prefix validity of a run. *)

\* The events main() applies for a batch, in order: of each message that is
\* not among the processed ids and passes the filters, the event
Reconcilable(batch, processed) ==
    LET f[n \in 0..Len(batch)] ==
            IF n = 0 THEN [events |-> <<>>, ids |-> processed]
            ELSE LET m == batch[n]
                     sofar == f[n - 1]
                 IN  IF m.messageId \in sofar.ids THEN sofar
                     ELSE IF ~passesFilters(m)
                     THEN [sofar EXCEPT !.ids = @ \cup {m.messageId}]
                     ELSE [events |-> Append(sofar.events, EventOf[m]),
                           ids |-> sofar.ids \cup {m.messageId}]
    IN  f[Len(batch)].events

\* The index and the shards after applyEventToRepo on each of the events
ReconcileAll(files, shardFiles, events, offset) ==
    LET written(store, after) ==
            [ index |-> IndexAfter(store.index, after.path),
              shards |-> WriteFile(store.shards, after.path, after.shard) ]
        f[n \in 0..Len(events)] ==
            IF n = 0 THEN [index |-> files, shards |-> shardFiles]
            ELSE written(f[n - 1], ShardAfter(f[n - 1].shards, events[n], offset))
    IN  f[Len(events)]

BatchOfRun == [i \in 1..Len(uids) |-> mailbox[uids[i]]]

\* C10: at every moment of a run, and after a run that failed or was
\* abandoned, the persisted incident set (the incidents of the shards the
\* index lists) is the incident set that applying to the store the run found
\* the first nEvents events of the batch, in order, gives, where nEvents is
\* the number of events whose shard the run has written: between the write
\* of the index and the write of the shard the incident set is still the
\* one before the event.
C10_PrefixValidity ==
    LET events == Reconcilable(BatchOfRun, Range(start.processed))
    IN  /\ nEvents <= Len(events)
        /\ LET prefix == ReconcileAll(start.index, start.shards,
                                      SubSeq(events, 1, nEvents), tz)
           IN  collectAllIncidents(index, shards)
                   = collectAllIncidents(prefix.index, prefix.shards)

\* A run that failed between the write of the index and the write of the
\* shard of an event, after it had applied another event
C10_Witness ==
    /\ pc = "idle"
    /\ nEvents > 0
    /\ \E i \in 1..Len(index) : index[i] \notin DOMAIN shards

-----------------------------------------------------------------------------
(* C11: no lost updates within one run. *)

\* The last run ended with saveState: the loop went through the whole batch
\* and the state file holds what the run had in memory.
RunCompleted ==
    /\ pc = "idle"
    /\ runs > 0
    /\ cursor > Len(uids)
    /\ stateFile = saveState(memIds)

HasUpdateOf(incident, messageId) ==
    \E i \in 1..Len(incident.updates) :
        incident.updates[i].source_message_id = messageId

\* C11: after a run that completed without failure, the index and the shards
\* are what applying the events of the batch one at a time, each to the store
\* the preceding one left, gives from the store the run found; and for every
\* message of the batch that passed the filters and was not processed before,
\* some incident of the persisted incident set has an update whose
\* source_message_id is the id of the message.
C11_NoLostUpdates ==
    RunCompleted =>
        LET events == Reconcilable(BatchOfRun, Range(start.processed))
            all == ReconcileAll(start.index, start.shards, events, tz)
            persisted == collectAllIncidents(index, shards)
        IN  /\ nEvents = Len(events)
            /\ index = all.index
            /\ shards = all.shards
            /\ \A n \in 1..Len(events) :
                   \E i \in 1..Len(persisted) :
                       HasUpdateOf(persisted[i], events[n].messageId)

\* A run completed in which two messages were applied, the second of them to
\* the incident the first had created.
C11_Witness ==
    /\ RunCompleted
    /\ nEvents = 2
    /\ LastMerged
    /\ Len(last[1].before[1].updates) = 1

-----------------------------------------------------------------------------
(* C12: a message is flagged \Seen after its event is saved. *)

\* Some incident of the persisted incident set has an update of the message
PersistedUpdateOf(messageId) ==
    \E i \in 1..Len(index) :
        /\ index[i] \in DOMAIN shards
        /\ \E k \in 1..Len(shards[index[i]].items) :
               HasUpdateOf(shards[index[i]].items[k], messageId)

\* The step that flags a message that passes the filters finds the update of
\* the message saved and its id among the processed ids
C12_FlagStep ==
    \A uid \in seenFlags' \ seenFlags :
        passesFilters(mailbox[uid]) =>
            /\ PersistedUpdateOf(mailbox[uid].messageId)
            /\ mailbox[uid].messageId \in Range(memIds)

\* Every message that is flagged or whose id is recorded as processed, in
\* memory or in the state file, and that passes the filters, has its update
\* in the persisted incident set
C12_SeenIsSaved ==
    /\ \A uid \in seenFlags :
           passesFilters(mailbox[uid]) => PersistedUpdateOf(mailbox[uid].messageId)
    /\ \A uid \in 1..Len(mailbox) :
           /\ passesFilters(mailbox[uid])
           /\ mailbox[uid].messageId \in Range(memIds) \cup Range(stateFile)
           => PersistedUpdateOf(mailbox[uid].messageId)

\* C12: a message that passes the filters and was not processed before is
\* flagged \Seen, and its id recorded as processed, only after its event was
\* reconciled and the shard saved; when the run fails before the shard of the
\* message is saved, the run does not flag the message.
C12_SeenAfterSave == [][C12_FlagStep]_vars /\ []C12_SeenIsSaved

\* A run failed after it had saved the event of its second message and before
\* it flagged the message: the first message is flagged, the second is not.
C12_Witness ==
    /\ pc = "idle"
    /\ ~RunCompleted
    /\ nEvents = 2
    /\ Len(uids) = 2
    /\ seenFlags = {uids[1]}

-----------------------------------------------------------------------------
(* C13: append-only history. *)

\* What of an incident is assigned at creation
Origin(path, incident) ==
    [ path |-> path, id |-> incident.id, started_at |-> incident.started_at,
      ingestion_key |-> incident.ingestion_key ]

Origins(files) == { Origin(p[1], p[2]) : p \in StoredIncidents(files) }

\* A call keeps every listed shard listed and every incident in its shard,
\* with its id, started_at and ingestion_key, and adds at most one incident
C13_StepKeepsIncidents ==
    /\ Range(index) \subseteq Range(index')
    /\ Origins(shards) \subseteq Origins(shards')
    /\ \A path \in DOMAIN shards :
           Len(shards'[path].items) >= Len(shards[path].items)
    /\ Cardinality(Origins(shards')) <= Cardinality(Origins(shards)) + 1

\* A created incident starts at the time of its event, under the key of its
\* event, and no other incident of its shard has its id
C13_CreatedOrigin ==
    /\ LastCreated =>
          /\ LastIncident.started_at = LastEvent.receivedAt
          /\ LastIncident.ingestion_key = LastEvent.subjectKey
    /\ \A path \in DOMAIN shards :
          \A i, k \in 1..Len(shards[path].items) :
              shards[path].items[i].id = shards[path].items[k].id => i = k

\* C13: after any sequence of reconciliations no incident has been removed
\* from the incident set, and every incident has the id, the started_at and
\* the ingestion_key it was given when it was created.
C13_AppendOnly == [][C13_StepKeepsIncidents]_vars /\ []C13_CreatedOrigin

\* An incident was updated by an event later than its start, in a shard that
\* holds another incident.
C13_Witness ==
    /\ LastMerged
    /\ LastEvent.receivedAt > LastIncident.started_at
    /\ Len(shards[last[1].path].items) = 2

-----------------------------------------------------------------------------
(* C14: the overall status. *)

\* The status file was written from the store as it is
StatusIsFresh == ~changed /\ nEvents > 0

\* The incidents of the indexed shards that are not resolved
ActiveIncidents ==
    { p[2] : p \in { q \in StoredIncidents(shards) :
                       q[1] \in Range(index) /\ q[2].status # "resolved" } }

\* The active incidents no other active incident comes before: of the top
\* severity rank and, among these, of the latest start
TopActive ==
    { a \in ActiveIncidents :
        \A b \in ActiveIncidents :
            \/ severityRank(a.severity) > severityRank(b.severity)
            \/ /\ severityRank(a.severity) = severityRank(b.severity)
               /\ a.started_at >= b.started_at }

\* C14: the overall status written by updateCurrentStatusFile is operational
\* iff no incident is unresolved; otherwise it is critical, major or degraded
\* as the severity of the top-ranked active incident (severity rank
\* descending, then started_at descending) is critical, major or anything
\* else; so it is critical iff some active incident is critical, and major
\* iff none is critical and some is major.
C14_OverallStatus ==
    StatusIsFresh =>
        LET status == statusFile.overall_status
            some(severity) == \E a \in ActiveIncidents : a.severity = severity
        IN  /\ status = "operational" <=> ActiveIncidents = {}
            /\ ActiveIncidents # {} =>
                 /\ TopActive # {}
                 /\ \A top \in TopActive :
                        status = IF top.severity = "critical" THEN "critical"
                                 ELSE IF top.severity = "major" THEN "major"
                                 ELSE "degraded"
            /\ status = "critical" <=> some("critical")
            /\ status = "major" <=> (~some("critical") /\ some("major"))

\* The status was written when the latest of the active incidents was a
\* minor one and an older one was critical.
C14_Witness ==
    /\ StatusIsFresh
    /\ statusFile.overall_status = "critical"
    /\ \E a, b \in ActiveIncidents :
           /\ a.severity = "minor" /\ b.severity = "critical"
           /\ a.started_at > b.started_at

-----------------------------------------------------------------------------
(* C15: the list of the active incidents and the banner. *)

\* a is listed before b, or they rank the same
RanksBefore(a, b) ==
    \/ severityRank(a.severity) > severityRank(b.severity)
    \/ /\ severityRank(a.severity) = severityRank(b.severity)
       /\ a.started_at >= b.started_at

ActiveInShards ==
    { q \in StoredIncidents(shards) :
        q[1] \in Range(index) /\ q[2].status # "resolved" }

\* The list has one entry for each active incident, the ids of the active
\* incidents and no other, in the order of the ranking
C15_ListsActive ==
    LET ids == statusFile.active_incident_ids
    IN  /\ Len(ids) = Cardinality(ActiveInShards)
        /\ Range(ids) = { a.id : a \in ActiveIncidents }
        /\ \A i, j \in 1..Len(ids) :
               i < j => \E a, b \in ActiveIncidents :
                            a.id = ids[i] /\ b.id = ids[j] /\ RanksBefore(a, b)

\* No id is listed twice
C15_EachOnce ==
    LET ids == statusFile.active_incident_ids
    IN  \A i, j \in 1..Len(ids) : ids[i] = ids[j] => i = j

\* The banner is the summary of the first listed incident, or its title when
\* it has no summary, or the fixed message when no incident is listed
C15_Banner ==
    LET ids == statusFile.active_incident_ids
    IN  IF ids = <<>> THEN statusFile.status_message = NoIncidentsMessage
        ELSE \E top \in TopActive :
                 /\ top.id = ids[1]
                 /\ statusFile.status_message =
                        IF top.summary # <<>> THEN top.summary ELSE top.title

\* C15: active_incident_ids written by updateCurrentStatusFile holds exactly
\* the ids of the incidents of the indexed shards that are not resolved, each
\* once, ordered by severity rank descending and then started_at descending;
\* status_message is the summary of the first listed incident, or its title
\* when the summary is empty, or the fixed operational message when the list
\* is empty.
C15_ActiveListAndBanner ==
    StatusIsFresh => C15_ListsActive /\ C15_EachOnce /\ C15_Banner

-----------------------------------------------------------------------------
(* C16: the merged downtime is the length of the union. *)

\* The half minutes of the window that some segment covers
CoveredTicks(segments, windowStart, windowEnd) ==
    { k \in 0..(MaxTick - 1) :
        /\ windowStart <= k * Tick
        /\ (k + 1) * Tick <= windowEnd
        /\ \E i \in 1..Len(segments) :
               segments[i].start <= k * Tick /\ (k + 1) * Tick <= segments[i].end }

\* C16: for every list of segments and every window, the downtime computed
\* by mergedDowntimeMs is the total length of the union of the segments
\* intersected with the window: what two segments share, or where they
\* touch, is counted once.
C16_MergeCorrectness ==
    result # <<>> =>
        result[1].downtimeMs =
            Tick * Cardinality(CoveredTicks(args[1].segments, args[1].windowStart,
                                            args[1].windowEnd))

\* Two segments that overlap, [0, 2) and [1, 3) half minutes in the window
\* [0, 3): the downtime is 3 half minutes, not 4.
C16_Witness ==
    /\ result # <<>>
    /\ args[1].windowStart = 0
    /\ args[1].windowEnd = 3 * Tick
    /\ Len(args[1].segments) = 2
    /\ args[1].segments[1].start = 0
    /\ args[1].segments[1].end = 2 * Tick
    /\ args[1].segments[2].start = Tick
    /\ args[1].segments[2].end = 3 * Tick
    /\ result[1].downtimeMs = 3 * Tick

-----------------------------------------------------------------------------
(* C17: clipping. *)

\* What a segment and the window share
Intersection(segment, windowStart, windowEnd) ==
    [ start |-> IF segment.start > windowStart THEN segment.start ELSE windowStart,
      end |-> IF segment.end < windowEnd THEN segment.end ELSE windowEnd,
      severity |-> segment.severity ]

NonEmpty(interval) == interval.start < interval.end

Occurrences(seq, x) == Cardinality({i \in 1..Len(seq) : seq[i] = x})

\* C17: clippedSegments returns, for each segment that shares something with
\* the window, what it shares, with the severity of the segment, and nothing
\* for a segment that shares nothing; the result is sorted by start
\* ascending. So one segment alone contributes to the downtime the length of
\* what it shares with the window: in milliseconds in the earlier revision,
\* and in app.js in minutes when what it shares starts and ends on a minute.
C17_Clipping ==
    result # <<>> =>
        LET a == args[1]
            clipped == result[1].clipped
            shared == [i \in 1..Len(a.segments) |->
                         Intersection(a.segments[i], a.windowStart, a.windowEnd)]
            kept == SelectSeq(shared, NonEmpty)
        IN  /\ Len(clipped) = Len(kept)
            /\ \A i \in 1..Len(kept) :
                   Occurrences(clipped, kept[i]) = Occurrences(kept, kept[i])
            /\ \A i \in 1..(Len(clipped) - 1) : clipped[i].start <= clipped[i + 1].start
            /\ Len(a.segments) = 1 =>
                   /\ result[1].downtimeMs =
                          IF kept = <<>> THEN 0 ELSE kept[1].end - kept[1].start
                   /\ /\ kept # <<>>
                      /\ kept[1].start % Minute = 0
                      /\ kept[1].end % Minute = 0
                      => result[1].downtimeBuckets * Minute
                             = kept[1].end - kept[1].start

\* A segment that starts before the window and ends inside it: [0, 3) half
\* minutes against the window [2, 4) gives [2, 3) and one half minute of
\* downtime.
C17_Witness ==
    /\ result # <<>>
    /\ args[1].windowStart = 2 * Tick
    /\ args[1].windowEnd = 4 * Tick
    /\ Len(args[1].segments) = 1
    /\ args[1].segments[1].start = 0
    /\ args[1].segments[1].end = 3 * Tick
    /\ Len(result[1].clipped) = 1
    /\ result[1].clipped[1].start = 2 * Tick
    /\ result[1].clipped[1].end = 3 * Tick
    /\ result[1].downtimeMs = Tick

-----------------------------------------------------------------------------
(* C18: the uptime of a window. *)

\* percent is 100 * (d - t) / d; d and t are in the same unit, which for the
\* times of a window, all on the half-minute grid, is the half minute
IsUptimeOf(percent, d, t) == percent.num * d = 100 * (d - t) * percent.den

InRange(percent) ==
    /\ percent.den > 0
    /\ 0 <= percent.num
    /\ percent.num <= 100 * percent.den

IsPercent(percent, n) == percent.num = n * percent.den

\* What both readings of the statement share: the result lies in [0, 100],
\* and a window that ends where it starts or before gives 100
C18_RangeAndEmptyWindow ==
    /\ InRange(result[1].uptimeMs)
    /\ InRange(result[1].uptime)
    /\ args[1].windowEnd <= args[1].windowStart =>
           /\ IsPercent(result[1].uptimeMs, 100)
           /\ IsPercent(result[1].uptime, 100)

\* C18: for a window of positive duration D and computed downtime T, both in
\* milliseconds, uptimeForWindow returns 100 * (D - T) / D, in the earlier
\* revision and in app.js; the result lies in [0, 100]; a window with
\* windowEnd <= windowStart gives 100 whatever the segments.
C18_WindowUptime ==
    result # <<>> =>
        LET d == args[1].windowEnd - args[1].windowStart
        IN  /\ C18_RangeAndEmptyWindow
            /\ d > 0 =>
                 /\ IsUptimeOf(result[1].uptimeMs, d \div Tick,
                               result[1].downtimeMs \div Tick)
                 /\ IsUptimeOf(result[1].uptime, d \div Tick,
                               (result[1].downtimeBuckets * Minute) \div Tick)

\* C18 as amended: in the earlier revision D is the duration of the window
\* and T the merged downtime, in milliseconds; in app.js D is the number of
\* minutes the window touches, ceil(windowEnd / 60000) -
\* floor(windowStart / 60000), and T the number of minutes a clipped segment
\* touches. In both the result is 100 * (D - T) / D when D > 0, with
\* 0 <= T <= D, so 100 when T = 0 and 0 when T = D, and always in [0, 100];
\* a window with windowEnd <= windowStart gives 100 whatever the segments.
C18_WindowUptimeByRevision ==
    result # <<>> =>
        LET d == args[1].windowEnd - args[1].windowStart
            minutes == CeilMinute(args[1].windowEnd) - FloorMinute(args[1].windowStart)
            r == result[1]
        IN  /\ C18_RangeAndEmptyWindow
            /\ d > 0 =>
                 /\ 0 <= r.downtimeMs /\ r.downtimeMs <= d
                 /\ IsUptimeOf(r.uptimeMs, d \div Tick, r.downtimeMs \div Tick)
                 /\ r.downtimeMs = 0 => IsPercent(r.uptimeMs, 100)
                 /\ r.downtimeMs = d => IsPercent(r.uptimeMs, 0)
                 /\ minutes > 0
                 /\ 0 <= r.downtimeBuckets /\ r.downtimeBuckets <= minutes
                 /\ IsUptimeOf(r.uptime, minutes, r.downtimeBuckets)
                 /\ r.downtimeBuckets = 0 => IsPercent(r.uptime, 100)
                 /\ r.downtimeBuckets = minutes => IsPercent(r.uptime, 0)

\* A window of a minute and a half that starts inside a minute, with half a
\* minute of downtime: two thirds in the earlier revision, a half in app.js.
C18_Witness ==
    /\ result # <<>>
    /\ args[1].windowStart = Tick
    /\ args[1].windowEnd = 4 * Tick
    /\ Len(args[1].segments) = 1
    /\ args[1].segments[1].start = Tick
    /\ args[1].segments[1].end = 2 * Tick
    /\ 3 * result[1].uptimeMs.num = 200 * result[1].uptimeMs.den
    /\ 2 * result[1].uptime.num = 100 * result[1].uptime.den

-----------------------------------------------------------------------------
(* C19: the uptime of the last 24 hours, and of no incident at all. *)

\* The incident set is one incident of severity major, started 24 hours
\* before referenceNow and open, or resolved at referenceNow
IsMajorForADay(items, referenceNow) ==
    /\ Len(items) = 1
    /\ items[1].severity = "major"
    /\ items[1].started_at = referenceNow - Day
    /\ \/ items[1].resolved_at \in {NullTime, InvalidDate} /\ items[1].status # "resolved"
       \/ items[1].resolved_at = referenceNow /\ items[1].status = "resolved"

AllHundred(uptime) ==
    /\ IsPercent(uptime.summary.last24h, 100)
    /\ IsPercent(uptime.summary.last30d, 100)
    /\ IsPercent(uptime.summary.last90d, 100)
    /\ Len(uptime.monthly) = MonthCount
    /\ \A i \in 1..MonthCount : IsPercent(uptime.monthly[i].uptime_percent, 100)
    /\ Len(uptime.recent_days) = DayCount
    /\ \A i \in 1..DayCount : IsPercent(uptime.recent_days[i].uptime_percent, 100)

C19_NoIncidents ==
    result # <<>> /\ args[1].incidents.items = <<>> =>
        AllHundred(result[1].uptime) /\ AllHundred(result[1].uptimeByState)

\* C19: with a single incident of severity major that started exactly 24
\* hours before referenceNow and is unresolved, or resolved at referenceNow,
\* summary.last24h is 0, in app.js and in the earlier revision; with no
\* incident, last24h, last30d, last90d, the 12 monthly values and the 30
\* daily values are all 100.
C19_UptimeScenario ==
    /\ C19_NoIncidents
    /\ result # <<>> /\ IsMajorForADay(args[1].incidents.items, args[1].now)
           => IsPercent(result[1].uptime.summary.last24h, 0)
    /\ result # <<>>
         /\ IsMajorForADay(args[1].incidents.items, result[1].referenceNowByState)
           => IsPercent(result[1].uptimeByState.summary.last24h, 0)

-----------------------------------------------------------------------------
(* C20: the band of a day or of a month, made of its percentage. *)

\* percent >= hundredths / 100
AtLeast(percent, hundredths) == 100 * percent.num >= hundredths * percent.den

FourBands(percent, band) ==
    /\ band \in {"operational", "degraded", "major", "critical"}
    /\ band = "operational" <=> AtLeast(percent, 9995)
    /\ band = "degraded" <=> AtLeast(percent, 9900) /\ ~AtLeast(percent, 9995)
    /\ band = "major" <=> AtLeast(percent, 9700) /\ ~AtLeast(percent, 9900)
    /\ band = "critical" <=> ~AtLeast(percent, 9700)

ThreeBands(percent, band) ==
    /\ band \in {"operational", "degraded", "major"}
    /\ band = "operational" <=> AtLeast(percent, 9800)
    /\ band = "degraded" <=> AtLeast(percent, 9500) /\ ~AtLeast(percent, 9800)
    /\ band = "major" <=> ~AtLeast(percent, 9500)

\* The bands of the earlier revision: the bar of each month
C20_EarlierRevision ==
    result # <<>> =>
        \A i \in 1..MonthCount :
            FourBands(result[1].uptimeByState.monthly[i].uptime_percent,
                      result[1].chartFillByState[i])

\* C20: a band made of an uptime percentage, by uptimeBandForPercent in
\* app.js (the cell of a day, the bar of a month) and by
\* severityForUptimePercent in the earlier revision (the bar of a month), is
\* operational iff the percentage is at least 99.95, degraded iff it is at
\* least 99.0 and below 99.95, major iff it is at least 97.0 and below 99.0,
\* and critical iff it is below 97.0.
C20_SeverityBands ==
    /\ C20_EarlierRevision
    /\ result # <<>> =>
         /\ \A i \in 1..DayCount :
                FourBands(result[1].uptime.recent_days[i].uptime_percent,
                          result[1].uptime.recent_days[i].uptime_band)
         /\ \A i \in 1..MonthCount :
                FourBands(result[1].uptime.monthly[i].uptime_percent,
                          result[1].chartFill[i])

\* C20 as amended: in the earlier revision the bands are those four; in
\* app.js the band of a day and of a month is operational iff the percentage
\* is at least 98, degraded iff it is at least 95 and below 98, and major iff
\* it is below 95, and it is never critical.
C20_SeverityBandsByRevision ==
    /\ C20_EarlierRevision
    /\ result # <<>> =>
         /\ \A i \in 1..DayCount :
                ThreeBands(result[1].uptime.recent_days[i].uptime_percent,
                           result[1].uptime.recent_days[i].uptime_band)
         /\ \A i \in 1..MonthCount :
                ThreeBands(result[1].uptime.monthly[i].uptime_percent,
                           result[1].chartFill[i])

\* An hour of downtime on 2024-03-14: the day is degraded in app.js, and the
\* month of March is degraded in the earlier revision and operational in
\* app.js.
C20_Witness ==
    /\ result # <<>>
    /\ result[1].uptime.recent_days[DayCount - 1].uptime_band = "degraded"
    /\ ~IsPercent(result[1].uptime.recent_days[DayCount - 1].uptime_percent, 100)
    /\ result[1].chartFillByState[1] = "degraded"
    /\ result[1].chartFill[1] = "operational"
    /\ ~IsPercent(result[1].uptime.monthly[1].uptime_percent, 100)

-----------------------------------------------------------------------------
(* C21: the twelve months of the report. *)

IsMonthStart(date) == \E month \in 0..LastMonth : date = MonthStart(month)

\* The start of the month after the one that starts at monthStart
NextMonthStart(monthStart) ==
    MonthStart(1 + CHOOSE month \in 0..(LastMonth - 1) : monthStart = MonthStart(month))

\* rows are the twelve months that end with the month of referenceNow, newest
\* first, each over its calendar month cut at bound, computed by uptimeOf
IsMonthlyReport(rows, windows, referenceNow, bound, uptimeOf(_, _)) ==
    /\ Len(rows) = MonthCount
    /\ Len(windows) = MonthCount
    /\ windows[1].start <= referenceNow
    /\ referenceNow < NextMonthStart(windows[1].start)
    /\ \A i \in 1..MonthCount :
         /\ IsMonthStart(windows[i].start)
         /\ windows[i].end = Min(NextMonthStart(windows[i].start), bound)
         /\ rows[i].month = windows[i].start
         /\ rows[i].uptime_percent = uptimeOf(windows[i].start, windows[i].end)
    /\ \A i \in 1..(MonthCount - 1) :
         /\ windows[i + 1].start < windows[i].start
         /\ windows[i + 1].end = windows[i].start

\* C21: computeUptimeFromIncidents gives exactly 12 monthly entries, the
\* current month and the 11 before it, newest first; each is the uptime over
\* [monthStart, nextMonthStart), with the end cut to referenceNow (earlier
\* revision) or to the start of the current day (app.js) when nextMonthStart
\* lies after it; a window starts where the window of the month before ends.
C21_MonthlyWindows ==
    result # <<>> =>
        /\ IsMonthlyReport(result[1].uptime.monthly, result[1].monthWindows,
               args[1].now, startOfDay(args[1].now),
               LAMBDA ws, we : uptimeForWindow(result[1].segments, ws, we))
        /\ IsMonthlyReport(result[1].uptimeByState.monthly,
               result[1].monthWindowsByState,
               result[1].referenceNowByState, result[1].referenceNowByState,
               LAMBDA ws, we : uptimeForWindowMs(result[1].segmentsByState, ws, we))

\* A report made in the middle of March 2024, with an hour of downtime
\* counted in the month in progress: the window of March is cut, the window
\* of February, a leap month, is whole.
C21_Witness ==
    /\ result # <<>>
    /\ args[1].now = MonthStart(14) + 14 * Day
    /\ result[1].monthWindows[1] = [start |-> MonthStart(14), end |-> args[1].now]
    /\ result[1].monthWindows[2] = [start |-> MonthStart(13), end |-> MonthStart(14)]
    /\ result[1].monthWindows[2].end - result[1].monthWindows[2].start = 29 * Day
    /\ ~IsPercent(result[1].uptime.monthly[1].uptime_percent, 100)
    /\ ~IsPercent(result[1].uptimeByState.monthly[1].uptime_percent, 100)

-----------------------------------------------------------------------------
(* C22: the thirty days of the report. *)

\* rows are the thirty days that end with the day of referenceNow, oldest
\* first, each over its day cut at bound, computed by uptimeOf
IsDailyReport(rows, windows, referenceNow, bound, uptimeOf(_, _)) ==
    /\ Len(rows) = DayCount
    /\ Len(windows) = DayCount
    /\ windows[DayCount].start <= referenceNow
    /\ referenceNow < windows[DayCount].start + Day
    /\ \A i \in 1..DayCount :
         /\ windows[i].start % Day = 0
         /\ windows[i].end = Min(windows[i].start + Day, bound)
         /\ rows[i].date = windows[i].start
         /\ rows[i].uptime_percent = uptimeOf(windows[i].start, windows[i].end)
    /\ \A i \in 1..(DayCount - 1) :
         windows[i + 1].start = windows[i].start + Day

\* The days of the earlier revision: the current day ends at referenceNow
C22_EarlierRevision ==
    result # <<>> =>
        IsDailyReport(result[1].uptimeByState.recent_days,
            result[1].dayWindowsByState,
            result[1].referenceNowByState, result[1].referenceNowByState,
            LAMBDA ws, we : uptimeForWindowMs(result[1].segmentsByState, ws, we))

\* The days of app.js, but for the end of the current day: every day is a
\* whole day, the current one too
C22_WholeDays ==
    result # <<>> =>
        IsDailyReport(result[1].uptime.recent_days, result[1].dayWindows,
            args[1].now, startOfDay(args[1].now) + Day,
            LAMBDA ws, we : uptimeForWindow(result[1].segments, ws, we))

\* C22: computeUptimeFromIncidents gives exactly 30 daily entries, the
\* current day and the 29 before it, oldest first; each is the uptime over
\* [dayStart, dayStart + 1 day), with the end of the current day cut to
\* referenceNow, so that no time after referenceNow is in a denominator; in
\* app.js and in the earlier revision.
C22_DailyWindows ==
    /\ C22_EarlierRevision
    /\ result # <<>> =>
         IsDailyReport(result[1].uptime.recent_days, result[1].dayWindows,
             args[1].now, args[1].now,
             LAMBDA ws, we : uptimeForWindow(result[1].segments, ws, we))

-----------------------------------------------------------------------------
(* C23: the page reads the incidents and writes none. *)

\* A computation leaves the loaded file, its incidents and their updates, as
\* they were
C23_FileUnchanged == args'[1].incidents = args[1].incidents

\* Two computations on the same file at the same time render the same
C23_SameReport == Len(result) = MaxRefreshes => result[1] = result[2]

-----------------------------------------------------------------------------
(* C24: the fields of an incident after an event was merged into it. *)

NoDuplicates(array) ==
    \A i, j \in 1..Len(array) : array[i] = array[j] => i = j

\* C24: after an event was reconciled into an existing incident, the title is
\* the previous title if that was non-empty and else the event's; the
\* affected_segments are the union, without duplicates, of the previous
\* segments and the event's; the summary is the event's if that is non-empty
\* and else the previous summary.
C24_FieldMerge ==
    LastMerged =>
        LET before == last[1].before[1]
        IN  /\ LastIncident.title =
                   IF before.title # <<>> THEN before.title ELSE LastEvent.title
            /\ Range(LastIncident.affected_segments) =
                   Range(before.affected_segments) \cup Range(LastEvent.affectedSegments)
            /\ NoDuplicates(LastIncident.affected_segments)
            /\ LastIncident.summary =
                   IF LastEvent.summary # <<>> THEN LastEvent.summary
                   ELSE before.summary

\* An event brought a segment and another summary to an incident that kept
\* its title
C24_Witness ==
    /\ LastMerged
    /\ last[1].before[1].title # <<>>
    /\ LastEvent.title # last[1].before[1].title
    /\ LastEvent.summary # <<>>
    /\ LastEvent.summary # last[1].before[1].summary
    /\ Range(LastEvent.affectedSegments) \cap Range(last[1].before[1].affected_segments) = {}
    /\ Len(LastIncident.affected_segments) = 2

\* An incident without a title took the title of an event
C24_WitnessTitleAdopted ==
    /\ LastMerged
    /\ last[1].before[1].title = <<>>
    /\ LastIncident.title # <<>>

\* An event without a summary left the summary of the incident
C24_WitnessSummaryKept ==
    /\ LastMerged
    /\ LastEvent.summary = <<>>
    /\ LastIncident.summary # <<>>

-----------------------------------------------------------------------------
(* C25: the segments the earlier revision makes of the updates. *)

\* The end of an incident: its resolved_at, or referenceNow when it has none
EndOrNow(incident, referenceNow) ==
    IF incident.resolved_at \in {NullTime, InvalidDate} THEN referenceNow
    ELSE incident.resolved_at

HasStartAndLasts(incident, referenceNow) ==
    /\ incident.started_at # InvalidDate
    /\ EndOrNow(incident, referenceNow) > incident.started_at

\* The updates with a valid timestamp, in every ascending order of timestamp
AscendingUpdates(updates) ==
    LET valid == SelectSeq(updates, LAMBDA u : u.timestamp # InvalidDate)
        n == Len(valid)
        orders == { p \in [1..n -> 1..n] : \A i, j \in 1..n : p[i] = p[j] => i = j }
    IN  { sorted \in { [i \in 1..n |-> valid[p[i]]] : p \in orders } :
            \A i \in 1..(n - 1) : sorted[i].timestamp <= sorted[i + 1].timestamp }

\* The segments of one incident whose updates are taken in the order sorted
CoarseSegments(incident, sorted, referenceNow) ==
    LET started == incident.started_at
        end == EndOrNow(incident, referenceNow)
        n == Len(sorted)
        segmentOf(i) ==
            [ start |-> Max(started, sorted[i].timestamp),
              end |-> Min(end, IF i < n THEN sorted[i + 1].timestamp ELSE end),
              severity |-> normalizeSeverity(sorted[i].state) ]
        emitted(segment) ==
            IF segment.start < segment.end /\ segment.severity # "operational"
            THEN <<segment>> ELSE <<>>
        upTo[i \in 0..n] ==
            IF i = 0 THEN <<>> ELSE upTo[i - 1] \o emitted(segmentOf(i))
    IN  IF n = 0
        THEN (IF normalizeSeverity(incident.severity) # "operational"
              THEN << [ start |-> started, end |-> end,
                        severity |-> normalizeSeverity(incident.severity) ] >>
              ELSE <<>>)
        ELSE upTo[n]

\* The lists of segments of the incidents of a file, one after the other
RECURSIVE CoarseOutcomes(_, _)
CoarseOutcomes(items, referenceNow) ==
    IF items = <<>> THEN { <<>> }
    ELSE { first \o rest :
             first \in { CoarseSegments(Head(items), sorted, referenceNow) :
                           sorted \in AscendingUpdates(Head(items).updates) },
             rest \in CoarseOutcomes(Tail(items), referenceNow) }

\* The earlier revision gives exactly the segments of the updates for the
\* incidents for which accepted(incident, referenceNow) holds
CoarseSegmentsFor(accepted(_, _)) ==
    ( /\ result # <<>>
      /\ \A incident \in Range(args[1].incidents.items) :
            accepted(incident, args[1].referenceNow) )
    => result[1].segmentsByState
           \in CoarseOutcomes(args[1].incidents.items, args[1].referenceNow)

\* C25: for an incident with a valid started_at and an end, its resolved_at
\* or else referenceNow, after the start, buildOutageSegments of the earlier
\* revision emits, when no update has a valid timestamp, one segment
\* [started, end) of the incident's normalized severity unless that is
\* operational; and else, with the updates in ascending order of timestamp,
\* for each update i the segment [max(started, t_i), min(end, t_i+1)), up to
\* end for the last update, of the normalized state of the update, iff the
\* segment is not empty and its severity is not operational; and no other.
C25_CoarseSegments == CoarseSegmentsFor(HasStartAndLasts)

\* The same for the incidents that have a resolved_at or lack the field
C25_EndGiven ==
    CoarseSegmentsFor(LAMBDA incident, referenceNow :
                         /\ HasStartAndLasts(incident, referenceNow)
                         /\ incident.resolved_at # NullTime)

\* Two updates gave two segments, the first cut at the start of the incident
C25_WitnessEndGiven ==
    /\ result # <<>>
    /\ Len(args[1].incidents.items) = 1
    /\ args[1].incidents.items[1].resolved_at = 20
    /\ Len(result[1].segmentsByState) = 2
    /\ result[1].segmentsByState[1].start = SkewStart
    /\ result[1].segmentsByState[1].end = 15

-----------------------------------------------------------------------------
(* C26: the segments of incidents whose clocks disagree. *)

\* A segment is not empty, not operational, and within the incident
SegmentWithin(segment, incident, referenceNow) ==
    /\ segment.start < segment.end
    /\ segment.severity # "operational"
    /\ incident.started_at # InvalidDate
    /\ incident.started_at <= segment.start
    /\ segment.end <= EndOrNow(incident, referenceNow)

ValidSegments(segments, items, referenceNow) ==
    /\ \A segment \in Range(segments) :
          \E incident \in Range(items) : SegmentWithin(segment, incident, referenceNow)
    /\ ( \A incident \in Range(items) : ~HasStartAndLasts(incident, referenceNow) )
           => segments = <<>>

\* C26: for every set of incidents, those resolved at or before their start
\* and those with updates from before the start or after the end included,
\* every segment that buildOutageSegments emits, in both revisions, has
\* start < end, a severity other than operational, and lies within
\* [started_at, end) of its incident; incidents whose end is not after the
\* start, or whose started_at is no date, give no segment. The function
\* returns for every such input: the model computes a list for each.
C26_SegmentValidity ==
    result # <<>> =>
        /\ ValidSegments(result[1].segments, args[1].incidents.items,
                         args[1].referenceNow)
        /\ ValidSegments(result[1].segmentsByState, args[1].incidents.items,
                         args[1].referenceNow)

\* An update from before the start and one from after the end: the segment
\* is cut to the incident, [10, 20)
C26_Witness ==
    /\ result # <<>>
    /\ Len(args[1].incidents.items) = 1
    /\ args[1].incidents.items[1].resolved_at = 20
    /\ Len(args[1].incidents.items[1].updates) = 2
    /\ args[1].incidents.items[1].updates[1].timestamp = 25
    /\ args[1].incidents.items[1].updates[2].timestamp = 5
    /\ result[1].segmentsByState = << [start |-> SkewStart, end |-> 20, severity |-> "major"] >>
    /\ result[1].segments = << [start |-> SkewStart, end |-> 20, severity |-> "major"] >>

\* An incident resolved before it started gives no segment
C26_WitnessResolvedBeforeStart ==
    /\ result # <<>>
    /\ Len(args[1].incidents.items) = 1
    /\ args[1].incidents.items[1].started_at = SkewStart
    /\ args[1].incidents.items[1].resolved_at = 5
    /\ args[1].incidents.items[1].severity = "major"
    /\ args[1].incidents.items[1].updates # <<>>
    /\ result[1].segments = <<>>
    /\ result[1].segmentsByState = <<>>

-----------------------------------------------------------------------------
(* C27: the downtime of app.js in minutes. *)

\* The minutes m, [m * 60000, (m + 1) * 60000) in milliseconds, that a
\* segment cut to the window shares time with
TouchedMinutes(segments, windowStart, windowEnd) ==
    { m \in 0..CeilMinute(MaxTick * Tick) :
        \E i \in 1..Len(segments) :
            Max(Max(segments[i].start, windowStart), m * Minute)
                < Min(Min(segments[i].end, windowEnd), (m + 1) * Minute) }

\* C27: mergedDowntimeBuckets returns the number of distinct minutes
\* m = floor(t / 60000) for which a segment clipped to the window shares time
\* with [m * 60000, (m + 1) * 60000), a minute that several segments touch
\* counting once; uptimeForWindow of app.js divides by the number of minutes
\* the window touches, ceil(windowEnd / 60000) - floor(windowStart / 60000).
C27_MinuteBuckets ==
    result # <<>> =>
        LET a == args[1]
            touched == Cardinality(TouchedMinutes(a.segments, a.windowStart, a.windowEnd))
            minutes == CeilMinute(a.windowEnd) - FloorMinute(a.windowStart)
        IN  /\ result[1].downtimeBuckets = touched
            /\ minutes > 0 => IsUptimeOf(result[1].uptime, minutes, touched)

\* Two segments in the first minute of a window of two minutes: the minute
\* counts once, the uptime is 50
C27_Witness ==
    /\ result # <<>>
    /\ args[1].windowStart = 0
    /\ args[1].windowEnd = 4 * Tick
    /\ Len(args[1].segments) = 2
    /\ args[1].segments[1].start = 0
    /\ args[1].segments[1].end = Tick
    /\ args[1].segments[2].start = Tick
    /\ args[1].segments[2].end = 2 * Tick
    /\ result[1].downtimeBuckets = 1
    /\ IsPercent(result[1].uptime, 50)

-----------------------------------------------------------------------------
(* Runs of main() after an earlier run: the earlier run went through one    *)
(* message, applied it or passed it over, flagged it and saved its id; mail *)
(* arrived since, and the same message can be among it.                     *)

InitLaterRun ==
    /\ tz \in TzOffsets
    /\ \E earlier \in MailMessages, arrived \in Mailboxes :
        \E store \in { ReconcileAll(<<>>, <<>>,
                                    Reconcilable(<<earlier>>, {}), tz) } :
           /\ mailbox = <<earlier>> \o arrived
           /\ index = store.index
           /\ shards = store.shards
           /\ statusFile = IF passesFilters(earlier)
                           THEN updateCurrentStatusFile(store.index, store.shards)
                           ELSE DefaultStatus
           /\ stateFile = saveState(<<earlier.messageId>>)
    /\ seenFlags = {1}
    /\ last = <<>>
    /\ nEvents = 0
    /\ pc = "idle"
    /\ uids = <<>>
    /\ cursor = 1
    /\ memIds = <<>>
    /\ changed = FALSE
    /\ runs = 0
    /\ start = [index |-> <<>>, shards |-> <<>>, processed |-> <<>>]
    /\ args = <<>>
    /\ result = <<>>

SpecLaterRun == InitLaterRun /\ [][NextRun]_vars

-----------------------------------------------------------------------------
(* C28: main() passes over the messages it knows and those it filters. *)

\* The message of the batch that the run went through last
PreviousMessage == mailbox[uids[cursor - 1]]

\* A step writes to the store, or applyEventToRepo returns, only for a
\* message that passes the filters and whose id is not in the state file; the
\* step on a message that does not pass the filters leaves its id among the
\* processed ids
C28_Step ==
    /\ (index' # index \/ shards' # shards \/ last' # last) =>
           /\ passesFilters(CurrentMessage)
           /\ CurrentMessage.messageId \notin Range(stateFile)
    /\ (InLoop /\ cursor' = cursor + 1 /\ ~passesFilters(CurrentMessage)) =>
           CurrentMessage.messageId \in Range(memIds')

\* The state file of a run that completed has the id of every message of the
\* batch that the filters rejected, and every id it had
C28_FilteredRemembered ==
    RunCompleted =>
        /\ Range(start.processed) \subseteq Range(stateFile)
        /\ \A i \in 1..Len(uids) :
               ~passesFilters(mailbox[uids[i]]) =>
                   mailbox[uids[i]].messageId \in Range(stateFile)

\* C28: in a run, a message whose id is among the persisted
\* processed_message_ids, or that fails the from or subject filter, is never
\* passed to applyEventToRepo and changes no incident; the id of a filtered
\* message is added to the processed ids, so that later runs pass it over.
C28_DriverDedup == [][C28_Step]_vars /\ []C28_FilteredRemembered

\* A message that passes the filters arrived again after the run that
\* applied it had saved its id: the run flagged it and went on, and the
\* store is as the run found it
C28_Witness ==
    /\ pc = "fetch"
    /\ cursor > 1
    /\ passesFilters(PreviousMessage)
    /\ PreviousMessage.messageId \in Range(stateFile)
    /\ uids[cursor - 1] \in seenFlags
    /\ shards # <<>>
    /\ index = start.index
    /\ shards = start.shards
    /\ last = <<>>

\* A message the filters reject was passed over by a run that completed, and
\* its id is in the state file
C28_WitnessFiltered ==
    /\ RunCompleted
    /\ \E i \in 1..Len(uids) :
          /\ ~passesFilters(mailbox[uids[i]])
          /\ mailbox[uids[i]].messageId \notin Range(start.processed)
          /\ mailbox[uids[i]].messageId \in Range(stateFile)
    /\ index = start.index
    /\ shards = start.shards

-----------------------------------------------------------------------------
(* C29: the status of an incident and its resolved_at. *)

\* C29: after any sequence of reconciliations that starts from the empty
\* incident set, with events whose incidentStatus is investigating or
\* resolved, every incident has status resolved if and only if its
\* resolved_at is not null.
C29_StatusCoupling ==
    /\ \A event \in Events : event.incidentStatus \in {"investigating", "resolved"}
    /\ \A x \in StoredIncidents(shards) :
           (x[2].status = "resolved") <=> (x[2].resolved_at # NullTime)

\* An incident that was resolved is open again, without resolved_at, next to
\* an incident that is resolved
C29_Witness ==
    /\ LastMerged
    /\ last[1].before[1].status = "resolved"
    /\ last[1].before[1].resolved_at # NullTime
    /\ LastIncident.status = "investigating"
    /\ LastIncident.resolved_at = NullTime
    /\ \E x \in StoredIncidents(shards) : x[2].status = "resolved"

-----------------------------------------------------------------------------
(* C30: a message that is delivered again. *)

\* The last call was for a message of which the incident it matched had an
\* update already
LastRedelivered ==
    /\ LastMerged
    /\ HasUpdateOf(last[1].before[1], LastEvent.messageId)

\* C30: reconciling an event whose messageId is in the updates of the
\* incident it matches changes no field of any incident (status, resolved_at,
\* severity, summary, affected_segments, updates), whatever was reconciled in
\* between; an investigating message delivered again after the incident was
\* resolved does not reopen it.
C30_RedeliverySafety ==
    LastRedelivered => LastIncident = last[1].before[1]

\* What holds of a message delivered again: the updates, the title, the
\* start and the key of the incident stay, and its severity does not rank
\* lower
C30_UpdatesKept ==
    LastRedelivered =>
        /\ LastIncident.updates = last[1].before[1].updates
        /\ LastIncident.title = last[1].before[1].title
        /\ LastIncident.started_at = last[1].before[1].started_at
        /\ LastIncident.ingestion_key = last[1].before[1].ingestion_key
        /\ severityRank(LastIncident.severity)
               >= severityRank(last[1].before[1].severity)

\* A message delivered again right after itself changes nothing
C30_WitnessUnchanged ==
    /\ LastRedelivered
    /\ nEvents = 2
    /\ Len(LastIncident.updates) = 1
    /\ LastIncident = last[1].before[1]

-----------------------------------------------------------------------------
(* C31: the ids of the whole incident set. *)

\* Every incident with its place: the shard and the position in its items
PlacedIncidents ==
    UNION { { <<path, k>> : k \in 1..Len(shards[path].items) } : path \in DOMAIN shards }

IdAt(place) == shards[place[1]].items[place[2]].id

\* No two incidents of one shard have the same id
C31_UniqueInShard ==
    \A a, b \in PlacedIncidents :
        (a[1] = b[1] /\ IdAt(a) = IdAt(b)) => a = b

\* On a machine on UTC no two incidents of the incident set have the same id
C31_UniqueOnUtc ==
    tz = 0 => \A a, b \in PlacedIncidents : IdAt(a) = IdAt(b) => a = b

\* C31: after any sequence of calls of applyEventToRepo no two incidents of
\* the whole incident set, over all monthly shards (the shard is that of the
\* local year and month of the event, the id has its UTC date), have the same
\* id, so that active_incident_ids never lists an id twice.
C31_GlobalIdUniqueness ==
    /\ \A a, b \in PlacedIncidents : IdAt(a) = IdAt(b) => a = b
    /\ NoDuplicates(statusFile.active_incident_ids)

-----------------------------------------------------------------------------
(* C32: what a reconciliation leaves alone. *)

ItemsOf(files, path) == IF path \in DOMAIN files THEN files[path].items ELSE <<>>

\* A call writes one shard; there it adds one incident, or puts one incident
\* in the place of the incident it matched, and every other incident of the
\* shard and every other shard is as it was
C32_Step ==
    LET call == last'[1]
        before == ItemsOf(shards, call.path)
        after == ItemsOf(shards', call.path)
        others(items) == SelectSeq(items, LAMBDA incident : incident.id # call.id)
        touched(items) == SelectSeq(items, LAMBDA incident : incident.id = call.id)
    IN  /\ DOMAIN shards' = DOMAIN shards \cup {call.path}
        /\ \A path \in DOMAIN shards : path # call.path => shards'[path] = shards[path]
        /\ Range(others(after)) = Range(others(before))
        /\ Len(others(after)) = Len(others(before))
        /\ Len(touched(after)) = 1
        /\ IF call.before = <<>>
           THEN touched(before) = <<>>
           ELSE touched(before) = call.before

\* C32: each reconciliation of an event either creates exactly one incident
\* or modifies exactly one existing incident, the one findMatchingIncident
\* returned; every other incident of the set, in the same shard and in every
\* other shard, is left as it was in all its fields.
C32_Frame == [][C32_Step]_vars

\* An event changed the incident it matched while another shard holds an
\* incident
C32_Witness ==
    /\ LastMerged
    /\ LastIncident # last[1].before[1]
    /\ \E x \in StoredIncidents(shards) : x[1] # last[1].path

-----------------------------------------------------------------------------
(* C33: the status file after a run. *)

\* The ids of the persisted incidents that are not resolved
PersistedActiveIds ==
    LET persisted == collectAllIncidents(index, shards)
    IN  { persisted[i].id : i \in { k \in 1..Len(persisted) :
                                       persisted[k].status # "resolved" } }

\* The status file agrees with the persisted incident set
StatusAgrees ==
    /\ Range(statusFile.active_incident_ids) = PersistedActiveIds
    /\ statusFile.overall_status = "operational" <=> PersistedActiveIds = {}

\* C33: whenever a run of main() ends normally, the persisted current status
\* agrees with the persisted incident set: active_incident_ids holds exactly
\* the ids of the incidents that are not resolved, and overall_status is
\* operational iff there is none; also when an earlier run failed after it
\* saved a shard and flagged the message and before updateCurrentStatusFile.
C33_StatusConsistency == RunCompleted => StatusAgrees

\* A run that applied an event and ended normally leaves a status file that
\* agrees
C33_AfterAppliedEvent == (RunCompleted /\ changed) => StatusAgrees

\* The first run, when it ends normally, leaves a status file that agrees
C33_FirstRun == (RunCompleted /\ runs = 1) => StatusAgrees

\* A run applied two events and wrote the status file, which lists an incident
C33_WitnessAfterAppliedEvent ==
    /\ RunCompleted
    /\ changed
    /\ nEvents = 2
    /\ statusFile.active_incident_ids # <<>>

-----------------------------------------------------------------------------
(* C34: an incident that is resolved, loaded with its earlier snapshots. *)

\* The latest state of the incident: the record of the last file
LatestRecord == args[1].files[Len(args[1].files)].items[1]

\* The windows of whole ticks from a time on, up to referenceNow
WindowsAfter(time) ==
    { w \in (0..SnapshotNow) \X (0..SnapshotNow) : time <= w[1] /\ w[1] < w[2] }

\* No segment shares time with a window after the latest resolved_at
NoDowntimeAfterResolution(segments) ==
    LatestRecord.resolved_at # NullTime =>
        \A w \in WindowsAfter(LatestRecord.resolved_at) :
            /\ mergedDowntimeBuckets(segments, w[1], w[2]) = 0
            /\ mergedDowntimeMs(segments, w[1], w[2]) = 0

\* The same downtime in every window of whole ticks up to referenceNow
SameDowntime(segments, others) ==
    \A w \in WindowsAfter(0) :
        /\ mergedDowntimeBuckets(segments, w[1], w[2]) =
               mergedDowntimeBuckets(others, w[1], w[2])
        /\ mergedDowntimeMs(segments, w[1], w[2]) =
               mergedDowntimeMs(others, w[1], w[2])

\* The segments of the latest state alone
LatestSegments == buildOutageSegments(<<LatestRecord>>, args[1].referenceNow)

\* C34: in app.js an incident of which a loaded record has resolved_at = r
\* gives no downtime to a window after r, also when several snapshot records
\* of the same id are loaded, an earlier one with resolved_at null and the
\* later resolved one; the uptime is computed from the latest state of each
\* incident id.
C34_ResolvedStopsCounting ==
    result # <<>> =>
        /\ NoDowntimeAfterResolution(result[1].segments)
        /\ SameDowntime(result[1].segments, LatestSegments)

\* The earlier revision keeps the latest record of an id and computes from it
C34_EarlierRevision ==
    result # <<>> =>
        /\ result[1].incidentsById.items = <<LatestRecord>>
        /\ NoDowntimeAfterResolution(result[1].segmentsByState)

\* In app.js too the snapshot with resolved_at null gives no segment, so that
\* an open snapshot followed by the resolved one counts until the resolution
C34_OpenThenResolved ==
    ( /\ result # <<>>
      /\ Len(args[1].files) = 2
      /\ args[1].files[1].items[1].resolved_at = NullTime
      /\ LatestRecord.resolved_at # NullTime )
    => /\ NoDowntimeAfterResolution(result[1].segments)
       /\ SameDowntime(result[1].segments, LatestSegments)

\* An open snapshot and the resolved one are loaded, and the page has a
\* segment that ends at the resolution
C34_WitnessOpenThenResolved ==
    /\ result # <<>>
    /\ Len(args[1].files) = 2
    /\ args[1].files[1].items[1].resolved_at = NullTime
    /\ LatestRecord.resolved_at = 8
    /\ Len(result[1].incidents.items) = 2
    /\ Len(result[1].segments) = 1
    /\ result[1].segments[1].end = 8

-----------------------------------------------------------------------------
(* C35: refreshes that overlap. *)

\* The render steps of a refresh are next to each other
RenderedTogether ==
    \A i, j \in 1..Len(result) :
        (i < j /\ result[i].refresh = result[j].refresh) =>
            \A k \in i..j : result[k].refresh = result[i].refresh

\* No refresh renders after one that was started later has rendered
RenderedInStartOrder ==
    \A i, j \in 1..Len(result) : i < j => result[i].refresh <= result[j].refresh

AllSettled == \A n \in 1..Len(args) : args[n].pc = "done"

\* C35: when calls of loadAndRender overlap, the render steps of one refresh
\* are never interleaved with those of another, and the page finally shows
\* the data of the refresh that was started last: a refresh started earlier
\* never renders after a refresh started later has rendered.
C35_RefreshOrdering ==
    /\ RenderedTogether
    /\ RenderedInStartOrder
    /\ (AllSettled /\ result # <<>>) =>
           result[Len(result)].refresh = Len(args)

\* The render steps of a refresh are not interleaved
C35_RenderedTogether == RenderedTogether

\* Two refreshes overlapped and both have rendered
C35_WitnessOverlap ==
    /\ Len(args) = 2
    /\ AllSettled
    /\ \E i, j \in 1..Len(result) :
           /\ result[i].refresh = 1 /\ result[i].step = "renderTimeline"
           /\ result[j].refresh = 2 /\ result[j].step = "renderTimeline"

-----------------------------------------------------------------------------
(* C36: a refresh of which a fetch fails. *)

\* The render steps of a refresh, in the order in which they ran
StepsOf(n) == SelectSeq(result, LAMBDA entry : entry.refresh = n)

StepNames(steps) == [i \in 1..Len(steps) |-> steps[i].step]

\* The files of the refresh that answered, in the order of the requests
AnsweredFiles(n) == SelectSeq(args[n].files, LAMBDA path : path \notin args[n].failed)

\* C36: a refresh in which the fetch of the manifest or of an incident file
\* fails still renders status, uptime and timeline from the files that did
\* load and does not enter the error state; a refresh in which the fetch of
\* current-status fails runs renderError only, and none of
\* renderCurrentStatus, renderUptime, renderTimeline.
C36_FailureHandling ==
    \A n \in 1..Len(args) :
        args[n].pc = "done" =>
            IF args[n].currentOk
            THEN /\ StepNames(StepsOf(n)) =
                        << "renderCurrentStatus", "renderUptime",
                           "renderTimeline", "renderRefreshTime" >>
                 /\ StepsOf(n)[2].files = AnsweredFiles(n)
                 /\ StepsOf(n)[3].files = AnsweredFiles(n)
            ELSE StepNames(StepsOf(n)) = << "renderError" >>

\* The manifest and one of two files failed, and the refresh rendered the
\* other file
C36_WitnessPartial ==
    \E n \in 1..Len(args) :
        /\ args[n].pc = "done"
        /\ ~args[n].manifestOk
        /\ args[n].failed = {}
        /\ Len(StepsOf(n)) = 4
        /\ StepsOf(n)[3].files = << "incidents/a.json" >>

\* A file failed and the refresh rendered the file that loaded
C36_WitnessFileFailed ==
    \E n \in 1..Len(args) :
        /\ args[n].pc = "done"
        /\ args[n].failed = { "incidents/b.json" }
        /\ Len(StepsOf(n)) = 4
        /\ StepsOf(n)[3].files = << "incidents/a.json" >>

\* The fetch of current-status failed and the refresh showed the error
C36_WitnessCurrentFailed ==
    \E n \in 1..Len(args) :
        /\ args[n].pc = "done"
        /\ ~args[n].currentOk
        /\ StepNames(StepsOf(n)) = << "renderError" >>

-----------------------------------------------------------------------------
(* C37: the downtime of a window is at most the window. *)

\* ((denominator - downtime) / denominator) * 100 without Math.max and Math.min
Unclamped(denominator, downtime) ==
    Percent(100 * (denominator - downtime), denominator)

\* The same number, for fractions of positive denominators
SamePercent(p, q) == p.num * q.den = q.num * p.den

WithinHundred(p) == 0 <= p.num /\ p.num <= 100 * p.den

\* C37: for every list of segments and every window of positive length the
\* downtime is at most the denominator, in the earlier revision
\* (mergedDowntimeMs <= windowEnd - windowStart) and in app.js
\* (mergedDowntimeBuckets <= ceil(windowEnd/60000) - floor(windowStart/60000)),
\* so that the quotient lies in [0,100] before the clamp and the clamp of
\* uptimeForWindow never changes the result.
C37_DowntimeWithinWindow ==
    (result # <<>> /\ args[1].windowEnd > args[1].windowStart) =>
        LET a == args[1]
            r == result[1]
            length == a.windowEnd - a.windowStart
            minutes == CeilMinute(a.windowEnd) - FloorMinute(a.windowStart)
        IN  /\ 0 <= r.downtimeMs /\ r.downtimeMs <= length
            /\ 0 <= r.downtimeBuckets /\ r.downtimeBuckets <= minutes
            /\ WithinHundred(Unclamped(length, r.downtimeMs))
            /\ WithinHundred(Unclamped(minutes, r.downtimeBuckets))
            /\ SamePercent(r.uptimeMs, Unclamped(length, r.downtimeMs))
            /\ SamePercent(r.uptime, Unclamped(minutes, r.downtimeBuckets))

\* Two segments that reach beyond the window on both sides cover it whole
C37_WitnessCovered ==
    /\ result # <<>>
    /\ Len(args[1].segments) = 2
    /\ \A i \in 1..2 : /\ args[1].segments[i].start < args[1].windowStart
                       /\ args[1].segments[i].end > args[1].windowEnd
    /\ args[1].windowEnd > args[1].windowStart
    /\ result[1].downtimeMs = args[1].windowEnd - args[1].windowStart
    /\ result[1].uptime = Percent(0, 1)

\* A window of which a part is down
C37_WitnessPartial ==
    /\ result # <<>>
    /\ 0 < result[1].downtimeMs
    /\ result[1].downtimeMs < args[1].windowEnd - args[1].windowStart
    /\ 0 < result[1].downtimeBuckets
    /\ result[1].downtimeBuckets <
           CeilMinute(args[1].windowEnd) - FloorMinute(args[1].windowStart)

-----------------------------------------------------------------------------
(* C38: the uptime of a window under changes of the list of segments. *)

\* The list with its first two segments exchanged, and the list with its
\* first segment moved to the end: every permutation of a list is reached
\* from it by these two
SwapFirst(segments) ==
    IF Len(segments) < 2 THEN segments
    ELSE <<segments[2], segments[1]>> \o SubSeq(segments, 3, Len(segments))

Rotate(segments) ==
    IF segments = <<>> THEN segments ELSE Append(Tail(segments), Head(segments))

\* The list with one of its segments a second time
Duplications(segments) ==
    { Append(segments, segments[i]) : i \in 1..Len(segments) }

\* The list without its last segment
Front(segments) == SubSeq(segments, 1, Len(segments) - 1)

AtMostPercent(p, q) == p.num * q.den <= q.num * p.den

\* C38: for a fixed window uptimeForWindow returns the same value for every
\* permutation of the list of segments and when a segment is duplicated, and
\* adding a segment to the list never increases it, in the continuous variant
\* and in the variant of minutes.
C38_OrderAndMonotonicity ==
    result # <<>> =>
        LET a == args[1]
            r == result[1]
            same(segments) ==
                /\ uptimeForWindow(segments, a.windowStart, a.windowEnd) = r.uptime
                /\ uptimeForWindowMs(segments, a.windowStart, a.windowEnd) = r.uptimeMs
        IN  /\ same(SwapFirst(a.segments))
            /\ same(Rotate(a.segments))
            /\ \A segments \in Duplications(a.segments) : same(segments)
            /\ a.segments # <<>> =>
                   /\ AtMostPercent(r.uptime,
                          uptimeForWindow(Front(a.segments), a.windowStart,
                                          a.windowEnd))
                   /\ AtMostPercent(r.uptimeMs,
                          uptimeForWindowMs(Front(a.segments), a.windowStart,
                                            a.windowEnd))

\* Two segments that overlap, the later one first in the list, both within a
\* window that they do not fill; the second one adds downtime
C38_WitnessOverlap ==
    /\ result # <<>>
    /\ Len(args[1].segments) = 2
    /\ args[1].segments[2].start < args[1].segments[1].start
    /\ args[1].segments[1].start < args[1].segments[2].end
    /\ args[1].segments[2].end < args[1].segments[1].end
    /\ args[1].windowStart <= args[1].segments[2].start
    /\ args[1].segments[1].end < args[1].windowEnd
    /\ result[1].uptimeMs # Percent(100, 1)
    /\ result[1].uptimeMs #
           uptimeForWindowMs(Front(args[1].segments), args[1].windowStart,
                             args[1].windowEnd)

====
